---- MODULE Spec2Model ----
(***************************************************************************)
(* A model of sync-gitlab-repo-submodule-action: the `sync-branch` and     *)
(* `merge-mr` commands, the branch reconciliation of upsertBranch and the  *)
(* GitLab state they act on (target branch, sync branch, merge requests).  *)
(*                                                                         *)
(* Strings are TLA+ strings; a text that is searched (a commit message, a  *)
(* diff) is a sequence of atoms, so that a search is computed.             *)
(***************************************************************************)
EXTENDS Integers, Sequences, FiniteSets, TLC

VARIABLES
    target,     \* remote target branch: [tip, pin]
    sync,       \* remote sync branch: [exists, base, basePin, commits, merged]
    mrs,        \* merge requests of the project; the iid is the index
    fs,         \* the base directory of the workspaces: path -> state
    runs,       \* one record per command invocation slot
    prev,       \* summary of the run that ended last, not valid once the
                \* environment acted
    call,       \* the branch-name functions applied to drawn arguments
    gitmodules  \* the path .gitmodules of the project gives for the submodule

vars == <<target, sync, mrs, fs, runs, prev, call, gitmodules>>

-----------------------------------------------------------------------------
(* Bounds of the model.                                                    *)

MaxTarget == 1      \* commits the target branch gains in one behaviour
MaxForeign == 1     \* commits somebody pushes on top of the sync branch
MaxMRs == 2         \* merge requests ever opened in the project

-----------------------------------------------------------------------------
(* Inputs and fixed names.                                                 *)

NoSHA == "undefined"
NoPath == "no-path"

SHAs == {"abc123", "def456"}
\* the --sha values of sync-branch: a full SHA, an abbreviated one, or none
ShaInputs == SHAs \cup {NoSHA, "abc"}

\* the --sha values of merge-mr: a full SHA, or an abbreviated one
MergeShaInputs == SHAs \cup {"abc"}

SubmoduleName == "my-sdk"
ExternalBranch == "feature/x"
TargetBranch == "main"
SubmodulePath == "monite-sdk"

RunIds == {"r1", "r2"}
SeqRunIds == {"r1"}
Paths == {"gitlab-sync-1"}

\* upsertBranch's default parameter
commitMessageSalt == "submodule-auto-sync"

-----------------------------------------------------------------------------
(* Branch names.                                                           *)

\* variant: the external branch is left out of the name
createMRSourceBranchName_NameOnly(githubProjectSubmoduleName, githubRepositoryBranch) ==
    githubProjectSubmoduleName \o "/" \o "sync"

createMRSourceBranchName(githubProjectSubmoduleName, githubRepositoryBranch) ==
    githubProjectSubmoduleName \o "/" \o githubRepositoryBranch

\* variant: the merge path joins the parts with another separator
getMRSourceBranchName_Dash(githubProjectSubmoduleName, githubRepositoryBranch) ==
    githubProjectSubmoduleName \o "-" \o githubRepositoryBranch

getMRSourceBranchName(githubProjectSubmoduleName, githubRepositoryBranch) ==
    githubProjectSubmoduleName \o "/" \o githubRepositoryBranch

-----------------------------------------------------------------------------
(* Commit messages and the salt test.                                      *)

\* Atoms that begin and end with a non-word character ("<bt>" is the
\* backtick); every other atom
\* (a name, a word, the salt) begins and ends with a word character.
NonWordAtoms == {" ", "'", "<bt>", ":", "(", ")"}

IsWordAtom(a) == a \notin NonWordAtoms

\* new RegExp('\\b' + salt + '\\b').test(logComment)
SaltRegexTest(logComment, salt) ==
    \E i \in 1..Len(logComment) :
        /\ logComment[i] = salt
        /\ (i = 1 \/ ~IsWordAtom(logComment[i - 1]))
        /\ (i = Len(logComment) \/ ~IsWordAtom(logComment[i + 1]))

\* the template "chore: update '<name>' submodule to '<branch>' <backtick><salt><backtick>"
SyncCommitMessage(name, branch, salt) ==
    <<"chore", ":", " ", "update", " ", "'", name, "'", " ", "submodule",
      " ", "to", " ", "'", branch, "'", " ", "<bt>", salt, "<bt>">>

\* messages a person may push to the sync branch
ForeignMessages ==
    { <<"fix", " ", "typo">>,
      <<"re", commitMessageSalt, "ed">>,
      <<"manual", " ", commitMessageSalt>> }

\* a commit of the target branch that the sync branch does not hold
OrdinaryMessage == <<"feat", ":", " ", "work">>

\* a SHA as the pieces of text the model tells apart: "abc" is a prefix of
\* "abc123"
ShaAtoms(sha) ==
    IF sha = "abc123" THEN <<"abc", "123">>
    ELSE IF sha = "def456" THEN <<"def", "456">>
    ELSE <<sha>>

\* String.prototype.includes on texts of atoms
Includes(text, part) ==
    \E i \in 0..(Len(text) - Len(part)) : SubSeq(text, i + 1, i + Len(part)) = part

-----------------------------------------------------------------------------
(* Branches, commits and logs.                                             *)

NoBranch ==
    [exists |-> FALSE, base |-> 0, basePin |-> NoSHA, commits |-> <<>>,
     merged |-> FALSE]

\* a branch created at the tip of `t` (git checkout -b / git reset --hard)
BranchAt(t) ==
    [exists |-> TRUE, base |-> t.tip, basePin |-> t.pin, commits |-> <<>>,
     merged |-> FALSE]

NoTarget == [tip |-> 0, pin |-> NoSHA]

RECURSIVE LastPin(_, _)
\* the submodule pointer recorded in the tree at the tip of a branch
LastPin(commits, basePin) ==
    IF commits = <<>> THEN basePin
    ELSE LET c == commits[Len(commits)]
         IN  IF gitmodules \in c.paths THEN c.pin
             ELSE LastPin(SubSeq(commits, 1, Len(commits) - 1), basePin)

TipPin(b) == LastPin(b.commits, b.basePin)

\* messages of the commits only the branch holds (origin/target..branch)
SyncOnlyLog(b) ==
    IF b.merged THEN <<>> ELSE [i \in 1..Len(b.commits) |-> b.commits[i].msg]

\* messages of the commits only the target holds (branch..origin/target)
TargetOnlyLog(b, t) ==
    [i \in 1..(IF t.tip > b.base THEN t.tip - b.base ELSE 0) |-> OrdinaryMessage]

\* git.log({ from: origin/target, to: branch }): simple-git builds the range
\* "from...to" (symmetric) unless symmetric: false is passed, and this call
\* does not pass it
GitLog(b, t) == SyncOnlyLog(b) \o TargetOnlyLog(b, t)

\* variant: every instead of some
HasCommitWithoutSalt_Every(log, salt) ==
    /\ log # <<>>
    /\ \A i \in 1..Len(log) : ~SaltRegexTest(log[i], salt)

\* log.all.some(item => !salt test)
HasCommitWithoutSalt(log, salt) ==
    \E i \in 1..Len(log) : ~SaltRegexTest(log[i], salt)

-----------------------------------------------------------------------------
(* Operation log of a run: every external call it issued, in order.        *)

Op(name, ok) == [op |-> name, ok |-> ok]

\* the calls names[1..k] of which the k-th failed (k = 0: all succeeded)
OpsUpTo(names, k) ==
    [i \in 1..(IF k = 0 THEN Len(names) ELSE k) |-> Op(names[i], i # k)]

Issued(r, name) == \E i \in 1..Len(runs[r].ops) : runs[r].ops[i].op = name

Succeeded(r, name) ==
    \E i \in 1..Len(runs[r].ops) :
        runs[r].ops[i].op = name /\ runs[r].ops[i].ok

-----------------------------------------------------------------------------
(* Runs.                                                                   *)

\* no merge call has returned
NoResult == [state |-> "none", status |-> "none"]

\* the process has not ended
NoExit == "none"

\* the exit code of a process whose handler returned
ExitSuccess == 0

\* process.exit(1) in the catch of the handlers
ExitFailure == 1

\* `changed`: a step of the run changed the sync branch or a merge request;
\* `logged`: logError has printed the error; `checked`: the diffs the run
\* has checked were those of the head the listing returned
IdleRun ==
    [kind |-> "none", pc |-> "idle", sha |-> NoSHA, outcome |-> "none",
     path |-> NoPath, oTarget |-> NoTarget, local |-> NoBranch, log |-> <<>>,
     subPath |-> NoPath, desired |-> NoSHA, subHead |-> NoSHA,
     prUrl |-> "unset", listing |-> <<>>, result |-> NoResult, changed |-> FALSE,
     logged |-> FALSE, exit |-> NoExit, checked |-> FALSE, ops |-> <<>>]

NoPrev == [valid |-> FALSE, kind |-> "none", sha |-> NoSHA, call |-> "none", iid |-> 0]

\* no result of a branch-name function yet
NoName == "none"

\* the commands derive the names inside a run; outside the specification of
\* the name functions this record stays as it is
NoCall ==
    [name |-> SubmoduleName, branch |-> ExternalBranch,
     name2 |-> SubmoduleName, branch2 |-> ExternalBranch,
     sync |-> NoName, again |-> NoName, other |-> NoName, merge |-> NoName]

Init ==
    /\ target = [tip |-> 0, pin |-> "abc123"]
    /\ sync = NoBranch
    /\ mrs = <<>>
    /\ fs = [p \in Paths |-> "absent"]
    /\ runs = [r \in RunIds |-> IdleRun]
    /\ prev = NoPrev
    /\ call = NoCall
    /\ gitmodules = SubmodulePath

\* program.ts: the sync-branch and merge-mr actions call the handler
Start(r, kind, sha, prUrl) ==
    /\ runs[r].pc = "idle"
    /\ runs' = [runs EXCEPT ![r] =
                  [IdleRun EXCEPT !.kind = kind, !.sha = sha, !.prUrl = prUrl,
                                  !.pc = IF kind = "sync" THEN "tempdir" ELSE "mlist"]]
    /\ UNCHANGED <<target, sync, mrs, fs, prev, call, gitmodules>>

\* variant: the catch logs the error and lets the process end normally
Ended_NoExit(rec, outcome) ==
    [rec EXCEPT !.pc = "done", !.outcome = outcome, !.logged = outcome # "ok",
                !.exit = ExitSuccess]

\* program.ts: try { await handler(...) } catch (error) { logError(error);
\* process.exit(1) }; the handler returns, or throws `outcome`
Ended(rec, outcome) ==
    [rec EXCEPT !.pc = "done", !.outcome = outcome, !.logged = outcome # "ok",
                !.exit = IF outcome = "ok" THEN ExitSuccess ELSE ExitFailure]

\* what is left of a run's state once its workspace is removed: the clone
\* and its refs are gone
Disposed(rec) == [rec EXCEPT !.oTarget = NoTarget, !.local = NoBranch]

\* a step of upsertBranch failed in the run state `rec`: the error leaves
\* the scope of `using`, which disposes the TempDir
FailUpsertWith(r, rec, err, newOps) ==
    /\ runs' = [runs EXCEPT ![r] =
                  [Ended(Disposed(rec), err) EXCEPT !.ops = @ \o newOps]]
    /\ fs' = [fs EXCEPT ![runs[r].path] = "absent"]

FailUpsert(r, err, newOps) == FailUpsertWith(r, runs[r], err, newOps)

\* a step failed outside upsertBranch
FailRun(r, err, newOps) ==
    runs' = [runs EXCEPT ![r] =
               [Ended(runs[r], err) EXCEPT !.ops = @ \o newOps]]

\* fs.readdirSync(path).length of a directory in the state d: a directory
\* that is neither absent nor empty holds the clone of the run it names
DirEntries(d) == IF d \in {"absent", "empty"} THEN 0 ELSE 1

\* variant: one entry is let through
IsNotEmpty_OffByOne(d) == DirEntries(d) > 1

\* fs.readdirSync(this.path).length > 0
IsNotEmpty(d) == DirEntries(d) > 0

\* variant: the constructor removes the directory it found in use
TempDirNew_DisposeOnThrow(r) ==
    /\ runs[r].pc = "tempdir"
    /\ \E p \in DOMAIN fs :
         IF IsNotEmpty(fs[p])
         THEN /\ runs' = [runs EXCEPT ![r] =
                            [Ended(runs[r], "TempDirNotEmpty") EXCEPT !.path = p]]
              /\ fs' = [fs EXCEPT ![p] = "absent"]
         ELSE /\ runs' = [runs EXCEPT ![r] = [@ EXCEPT !.pc = "clone", !.path = p]]
              /\ fs' = [fs EXCEPT ![p] = "empty"]
    /\ UNCHANGED <<target, sync, mrs, prev, call, gitmodules>>

\* new TempDir(): Date.now() names the directory, mkdirSync creates it when
\* it is absent, and the constructor throws when it holds anything
TempDirNew(r) ==
    /\ runs[r].pc = "tempdir"
    /\ \E p \in DOMAIN fs :
         IF IsNotEmpty(fs[p])
         THEN /\ runs' = [runs EXCEPT ![r] =
                            [Ended(runs[r], "TempDirNotEmpty") EXCEPT !.path = p]]
              /\ UNCHANGED fs
         ELSE /\ runs' = [runs EXCEPT ![r] = [@ EXCEPT !.pc = "clone", !.path = p]]
              /\ fs' = [fs EXCEPT ![p] = "empty"]
    /\ UNCHANGED <<target, sync, mrs, prev, call, gitmodules>>

CloneOps == <<"showCurrentUser", "Projects.show", "clone", "addConfig.email", "addConfig.name">>
CloneErrors == <<"UserData", "ProjectShow", "CloneFailed", "ConfigEmail", "ConfigName">>

\* the directory of run r holds a clone
HasClone(r) == fs[runs[r].path] \in RunIds

\* git clone <url> . needs the directory to exist and to be empty: simpleGit
\* throws when it is absent, git when it holds something
cloneGitlabRepo(r) ==
    /\ runs[r].pc = "clone"
    /\ \E k \in 0..Len(CloneOps) :
         LET d == fs[runs[r].path]
         IN  /\ d # "empty" => k \in 1..3
             /\ IF k # 0
                THEN FailUpsert(r, IF k = 3 /\ d = "absent" THEN "WorkspaceGone"
                                   ELSE CloneErrors[k],
                                OpsUpTo(CloneOps, k))
                ELSE /\ runs' = [runs EXCEPT ![r] =
                                   [@ EXCEPT !.pc = "checkout", !.oTarget = target,
                                             !.ops = @ \o OpsUpTo(CloneOps, 0)]]
                     /\ fs' = [fs EXCEPT ![runs[r].path] = r]
    /\ UNCHANGED <<target, sync, mrs, prev, call, gitmodules>>

\* fetch and checkout of the own ref; on any failure of either, fetch and
\* checkout of the target ref
checkoutGitlabSourceBranch(r) ==
    /\ runs[r].pc = "checkout"
    /\ HasClone(r)
    /\ \E fetchOk \in BOOLEAN, coOk \in BOOLEAN, ftOk \in BOOLEAN, ctOk \in BOOLEAN :
         /\ fetchOk => sync.exists
         /\ ~fetchOk => coOk
         /\ (fetchOk /\ coOk) => (ftOk /\ ctOk)
         /\ ~ftOk => ctOk
         /\ LET own == <<Op("fetch.sync", fetchOk)>>
                       \o (IF fetchOk THEN <<Op("checkout.sync", coOk)>> ELSE <<>>)
                fb  == <<Op("fetch.target", ftOk)>>
                       \o (IF ftOk THEN <<Op("checkout.target", ctOk)>> ELSE <<>>)
            IN  IF fetchOk /\ coOk
                THEN /\ runs' = [runs EXCEPT ![r] =
                                   [@ EXCEPT !.pc = "validate", !.local = sync,
                                             !.ops = @ \o own]]
                     /\ UNCHANGED fs
                ELSE IF ftOk /\ ctOk
                THEN /\ runs' = [runs EXCEPT ![r] =
                                   [@ EXCEPT !.pc = "validate", !.oTarget = target,
                                             !.local = BranchAt(target),
                                             !.ops = @ \o own \o fb]]
                     /\ UNCHANGED fs
                ELSE FailUpsert(r, IF ftOk THEN "CheckoutTarget" ELSE "FetchTarget",
                                own \o fb)
    /\ UNCHANGED <<target, sync, mrs, prev, call, gitmodules>>

validateIsSubmoduleSyncBranch(r) ==
    /\ runs[r].pc = "validate"
    /\ HasClone(r)
    /\ \E ftOk \in BOOLEAN, logOk \in BOOLEAN :
         /\ ~ftOk => logOk
         /\ LET log == GitLog(runs[r].local, target)
                fetched == [runs[r] EXCEPT !.oTarget = target, !.log = log]
            IN  IF ~ftOk
                THEN FailUpsert(r, "FetchTarget", <<Op("fetch.target", FALSE)>>)
                ELSE IF ~logOk
                THEN FailUpsert(r, "LogFailed",
                                    <<Op("fetch.target", TRUE), Op("log", FALSE)>>)
                ELSE IF HasCommitWithoutSalt(log, commitMessageSalt)
                THEN FailUpsertWith(r, fetched, "Drift",
                                    <<Op("fetch.target", TRUE), Op("log", TRUE)>>)
                ELSE /\ runs' = [runs EXCEPT ![r] =
                                   [fetched EXCEPT !.pc = "reset",
                                       !.ops = @ \o <<Op("fetch.target", TRUE),
                                                      Op("log", TRUE)>>]]
                     /\ UNCHANGED fs
    /\ UNCHANGED <<target, sync, mrs, prev, call, gitmodules>>

\* variant: the hard reset does not wait for the validation
resetGitlabRepoBranch_Unvalidated(r) ==
    /\ runs[r].pc \in {"validate", "reset"}
    /\ HasClone(r)
    /\ runs' = [runs EXCEPT ![r] =
                  [@ EXCEPT !.pc = "pin", !.local = BranchAt(runs[r].oTarget),
                            !.log = <<>>, !.ops = @ \o <<Op("reset", TRUE)>>]]
    /\ UNCHANGED <<target, sync, mrs, fs, prev, call, gitmodules>>

\* the part of resetGitlabRepoBranch after the validation:
\* git reset --hard origin/<target>
resetGitlabRepoBranch(r) ==
    /\ runs[r].pc = "reset"
    /\ HasClone(r)
    /\ \E ok \in BOOLEAN :
         IF ok
         THEN /\ runs' = [runs EXCEPT ![r] =
                            [@ EXCEPT !.pc = "pin", !.local = BranchAt(runs[r].oTarget),
                                      !.log = <<>>,
                                      !.ops = @ \o <<Op("reset", TRUE)>>]]
              /\ UNCHANGED fs
         ELSE FailUpsertWith(r, [runs[r] EXCEPT !.log = <<>>], "ResetFailed",
                             <<Op("reset", FALSE)>>)
    /\ UNCHANGED <<target, sync, mrs, prev, call, gitmodules>>

\* `githubRepositorySHA || ...`: undefined and the empty string are falsy
IsFalsy(s) == s \in {NoSHA, ""}

\* what git ls-remote --heads <branch> may print, split at whitespace
LsRemoteResults ==
    { <<"abc123", "refs/heads/feature/x">>,
      <<"def456", "refs/heads/feature/x">>,
      <<"">> }

\* const [sha] = result.split(/\s+/)
FirstToken(result) == result[1]

\* the revisions the submodule repository can resolve, and the commit each names
Resolvable == SHAs \cup {"abc"}

RevParse(rev) == IF rev = "abc" THEN "abc123" ELSE rev

PinOps == <<"submodule.init", "submodule.fetch", "submodule.checkoutBranch",
            "submodule.checkout", "revparse">>
PinErrors == <<"SubmoduleInit", "SubmoduleFetch", "SubmoduleCheckoutBranch",
               "SubmoduleCheckoutSHA", "RevParseFailed">>

\* what reading submodule.<name>.path of .gitmodules gives: "fail" when git
\* fails, "" when the name has no path
SubmodulePathResults == {"fail", "", gitmodules}

\* variant: the read-back head need only begin with the desired SHA
SHAMatches_Prefix(branchHeadSHA, submoduleBranchHeadSHA) ==
    Includes(SubSeq(ShaAtoms(branchHeadSHA), 1, Len(ShaAtoms(submoduleBranchHeadSHA))),
             ShaAtoms(submoduleBranchHeadSHA))

\* branchHeadSHA !== submoduleBranchHeadSHA throws
SHAMatches(branchHeadSHA, submoduleBranchHeadSHA) ==
    branchHeadSHA = submoduleBranchHeadSHA

checkoutSubmoduleBranch(r) ==
    /\ runs[r].pc = "pin"
    /\ HasClone(r)
    /\ \E pathRes \in SubmodulePathResults, ls \in LsRemoteResults \cup {<<"fail">>},
          k \in 0..Len(PinOps) :
         LET lookup  == IsFalsy(runs[r].sha)
             desired == IF lookup THEN FirstToken(ls) ELSE runs[r].sha
             pre     == <<Op("config.path", pathRes # "fail")>>
                        \o (IF lookup /\ pathRes \notin {"fail", ""}
                            THEN <<Op("listRemote", ls # <<"fail">>)>> ELSE <<>>)
             head    == RevParse(desired)
             rec     == [runs[r] EXCEPT !.subPath = pathRes, !.desired = desired]
         IN  /\ ~lookup => ls = <<"">>
             /\ pathRes \in {"fail", ""} => (ls = <<"">> /\ k = 0)
             /\ ls = <<"fail">> => k = 0
             /\ (k = 0 \/ k > 4) => desired \in Resolvable \/ pathRes \in {"fail", ""}
                                     \/ ls = <<"fail">>
             /\ IF pathRes = "fail"
                THEN FailUpsert(r, "SubmodulePathFailed", pre)
                ELSE IF pathRes = ""
                THEN FailUpsert(r, "SubmodulePathNotFound", pre)
                ELSE IF ls = <<"fail">>
                THEN FailUpsert(r, "ListRemoteFailed", pre)
                ELSE IF k # 0
                THEN FailUpsertWith(r, rec, PinErrors[k], pre \o OpsUpTo(PinOps, k))
                ELSE IF ~SHAMatches(head, desired)
                THEN FailUpsertWith(r, [rec EXCEPT !.subHead = head], "SHAMismatch",
                                    pre \o OpsUpTo(PinOps, 0))
                ELSE /\ runs' = [runs EXCEPT ![r] =
                                   [rec EXCEPT !.pc = "commit", !.subHead = head,
                                               !.ops = @ \o pre \o OpsUpTo(PinOps, 0)]]
                     /\ UNCHANGED fs
    /\ UNCHANGED <<target, sync, mrs, prev, call, gitmodules>>

CommitOps == <<"config.path", "add", "commit">>
CommitErrors == <<"SubmodulePathFailed", "AddFailed", "CommitFailed">>

\* the commit git commit creates from the staged submodule pointer
SyncCommit(r) ==
    [msg |-> SyncCommitMessage(SubmoduleName, ExternalBranch, commitMessageSalt),
     paths |-> {runs[r].subPath},
     pin |-> runs[r].subHead]

\* git add <path> stages the pointer when it differs from the one recorded at
\* HEAD; with nothing staged git commit exits 1 with an empty stderr, which
\* simple-git does not report as a failure
commitGitlabRepoChanges(r) ==
    /\ runs[r].pc = "commit"
    /\ HasClone(r)
    /\ \E k \in 0..Len(CommitOps) :
         IF k # 0
         THEN FailUpsert(r, CommitErrors[k], OpsUpTo(CommitOps, k))
         ELSE LET staged == runs[r].subHead # TipPin(runs[r].local)
              IN  /\ runs' = [runs EXCEPT ![r] =
                       [@ EXCEPT !.pc = "push",
                                 !.local.commits =
                                     IF staged THEN Append(@, SyncCommit(r)) ELSE @,
                                 !.ops = @ \o OpsUpTo(CommitOps, 0)]]
                  /\ UNCHANGED fs
    /\ UNCHANGED <<target, sync, mrs, prev, call, gitmodules>>

\* variant: a push that failed is attempted again
pushGitlabRepoChanges_Retry(r) ==
    /\ runs[r].pc = "push"
    /\ HasClone(r)
    /\ \E ok \in BOOLEAN :
         IF ok
         THEN /\ sync' = runs[r].local
              /\ runs' = [runs EXCEPT ![r] =
                            [Disposed(runs[r]) EXCEPT !.pc = "list",
                                 !.changed = @ \/ runs[r].local # sync,
                                 !.ops = @ \o <<Op("push", TRUE)>>]]
              /\ fs' = [fs EXCEPT ![runs[r].path] = "absent"]
         ELSE /\ Len(runs[r].ops) < 30
              /\ runs' = [runs EXCEPT ![r] = [@ EXCEPT !.ops = @ \o <<Op("push", FALSE)>>]]
              /\ UNCHANGED <<sync, fs>>
    /\ UNCHANGED <<target, mrs, prev, call, gitmodules>>

\* variant: syncBranch goes on to the merge request when the push failed
pushGitlabRepoChanges_Swallowed(r) ==
    /\ runs[r].pc = "push"
    /\ HasClone(r)
    /\ \E ok \in BOOLEAN :
         /\ sync' = IF ok THEN runs[r].local ELSE sync
         /\ runs' = [runs EXCEPT ![r] =
                       [Disposed(runs[r]) EXCEPT !.pc = "list",
                            !.changed = @ \/ (ok /\ runs[r].local # sync),
                            !.ops = @ \o <<Op("push", ok)>>]]
         /\ fs' = [fs EXCEPT ![runs[r].path] = "absent"]
    /\ UNCHANGED <<target, mrs, prev, call, gitmodules>>

\* git push origin <sync branch> --force --no-verify; upsertBranch returns and
\* the TempDir is disposed
pushGitlabRepoChanges(r) ==
    /\ runs[r].pc = "push"
    /\ HasClone(r)
    /\ \E ok \in BOOLEAN :
         IF ok
         THEN /\ sync' = runs[r].local
              /\ runs' = [runs EXCEPT ![r] =
                            [Disposed(runs[r]) EXCEPT !.pc = "list",
                                 !.changed = @ \/ runs[r].local # sync,
                                 !.ops = @ \o <<Op("push", TRUE)>>]]
              /\ fs' = [fs EXCEPT ![runs[r].path] = "absent"]
         ELSE /\ FailUpsert(r, "PushFailed", <<Op("push", FALSE)>>)
              /\ UNCHANGED sync
    /\ UNCHANGED <<target, mrs, prev, call, gitmodules>>

-----------------------------------------------------------------------------
(* Merge requests.                                                         *)

\* GITHUB_PR_URL as the process may find it
PrUrlEnv == {"unset"}

\* values of GITHUB_PR_URL: "unset" for undefined
PrUrlValues ==
    {"unset", "", "https://github.com/o/r/pull/7", "https://github.com/o/r/pull/7/",
     "https://github.com/o/r/pulls", "https://github.com:443",
     "github.com/o/r/pull/7", "not a url 7"}

\* new URL(x).toString(), "throw" when x does not parse: a string without a
\* scheme does not parse; the default port is dropped and an empty path is "/"
UrlToString(x) ==
    IF x \in {"https://github.com/o/r/pull/7", "https://github.com/o/r/pull/7/",
              "https://github.com/o/r/pulls"} THEN x
    ELSE IF x = "https://github.com:443" THEN "https://github.com/"
    ELSE "throw"

\* /\d+$/.test(s)
EndsInDigit(s) ==
    s \in {"https://github.com/o/r/pull/7", "https://github.com:443",
           "github.com/o/r/pull/7", "not a url 7"}

\* variant: the value is tested as it is configured
getGithubPullRequestUrl_Raw(env) ==
    IF env \in {"unset", ""} THEN "unset"
    ELSE IF EndsInDigit(env) THEN env ELSE "unset"

\* the URL, or "unset" for undefined: `env && new URL(env).toString()` is the
\* falsy env itself for undefined and "", and the catch returns undefined
getGithubPullRequestUrl(env) ==
    IF env \in {"unset", ""} \/ UrlToString(env) = "throw" THEN "unset"
    ELSE IF EndsInDigit(UrlToString(env)) THEN UrlToString(env) ELSE "unset"

\* variant: the title does not name the external branch
createGitlabMergeRequestInfo_NoBranch(githubRepositorySHA, githubRepositoryBranch, githubProjectSubmoduleName, env) ==
    [title |-> "chore(" \o githubProjectSubmoduleName \o "): update submodule",
     description |-> "This MR updates the <bt>" \o githubProjectSubmoduleName
                   \o "<bt> submodule to the SHA commit <bt>" \o githubRepositorySHA
                   \o "<bt> on the <bt>" \o githubRepositoryBranch \o "<bt> branch."]

\* title and description of the merge request ("<bt>" is the backtick)
createGitlabMergeRequestInfo(githubRepositorySHA, githubRepositoryBranch, githubProjectSubmoduleName, env) ==
    LET url == getGithubPullRequestUrl(env)
        submoduleBranchNameMarkdown ==
            IF url # "unset"
            THEN "[<bt>" \o githubRepositoryBranch \o "<bt>](" \o url \o ")"
            ELSE "<bt>" \o githubRepositoryBranch \o "<bt>"
    IN  [title |-> "chore(" \o githubProjectSubmoduleName
                   \o "): update submodule to '" \o githubRepositoryBranch \o "'",
         description |-> "This MR updates the <bt>" \o githubProjectSubmoduleName
                   \o "<bt> submodule to the SHA commit <bt>" \o githubRepositorySHA
                   \o "<bt> on the " \o submoduleBranchNameMarkdown \o " branch."]

\* variant: source and target branch are passed in each other's place
OpenMRs_Swapped(sourceBranch, targetBranch) ==
    LET open == {i \in 1..Len(mrs) : /\ mrs[i].source = targetBranch
                                     /\ mrs[i].target = sourceBranch
                                     /\ mrs[i].state = "opened"}
    IN  [i \in 1..Cardinality(open) |-> CHOOSE x \in open : TRUE]

\* variant: the listing does not ask for a state
OpenMRs_AnyState(sourceBranch, targetBranch) ==
    LET found == {i \in 1..Len(mrs) : /\ mrs[i].source = sourceBranch
                                      /\ mrs[i].target = targetBranch}
    IN  IF found = {} THEN <<>> ELSE <<CHOOSE x \in found : \A y \in found : y <= x>>

\* variant: the listing asks for merged merge requests
OpenMRs_Merged(sourceBranch, targetBranch) ==
    LET found == {i \in 1..Len(mrs) : /\ mrs[i].source = sourceBranch
                                      /\ mrs[i].target = targetBranch
                                      /\ mrs[i].state = "merged"}
    IN  IF found = {} THEN <<>> ELSE <<CHOOSE x \in found : \A y \in found : y <= x>>

\* MergeRequests.all({ projectId, targetBranch, sourceBranch, state: 'opened' }):
\* the iids, newest first (GitLab's default order)
OpenMRs(sourceBranch, targetBranch) ==
    LET open == {i \in 1..Len(mrs) : /\ mrs[i].source = sourceBranch
                                     /\ mrs[i].target = targetBranch
                                     /\ mrs[i].state = "opened"}
        RECURSIVE Desc(_)
        Desc(S) == IF S = {} THEN <<>>
                   ELSE LET m == CHOOSE x \in S : \A y \in S : y <= x
                        IN  <<m>> \o Desc(S \ {m})
    IN  Desc(open)

\* const [existingMr, ...mrsRest] = await gitlab.MergeRequests.all(...)
mrsRest(mergeRequests) == SubSeq(mergeRequests, 2, Len(mergeRequests))

\* variant: the rest is taken after two elements
HasMultipleMRs_OffByOne(mergeRequests) ==
    Len(SubSeq(mrsRest(mergeRequests), 2, Len(mrsRest(mergeRequests)))) # 0

\* if (mrsRest.length) throw ...
HasMultipleMRs(mergeRequests) == Len(mrsRest(mergeRequests)) # 0

\* syncBranch after upsertBranch: the listing and the multiplicity check
syncListMRs(r) ==
    /\ runs[r].pc = "list"
    /\ \E ok \in BOOLEAN :
         LET gitlabSourceBranch == createMRSourceBranchName(SubmoduleName, ExternalBranch)
             found == OpenMRs(gitlabSourceBranch, TargetBranch)
             listing == [i \in 1..Len(found) |-> [iid |-> found[i], has_conflicts |-> FALSE]]
         IN  IF ~ok
             THEN FailRun(r, "RestError", <<Op("MergeRequests.all", FALSE)>>)
             ELSE IF HasMultipleMRs(listing)
             THEN FailRun(r, "MultipleMRs", <<Op("MergeRequests.all", TRUE)>>)
             ELSE runs' = [runs EXCEPT ![r] =
                             [@ EXCEPT !.pc = "upsert", !.listing = listing,
                                       !.ops = @ \o <<Op("MergeRequests.all", TRUE)>>]]
    /\ UNCHANGED <<target, sync, mrs, fs, prev, call, gitmodules>>

MrCall(name, ok, iid, options) ==
    [op |-> name, ok |-> ok, iid |-> iid,
     removeSourceBranch |-> options.removeSourceBranch,
     title |-> options.title, description |-> options.description]

\* syncBranch: edit the merge request found, or create one
syncUpsertMR(r) ==
    /\ runs[r].pc = "upsert"
    /\ LET gitlabSourceBranch == createMRSourceBranchName(SubmoduleName, ExternalBranch)
           info == createGitlabMergeRequestInfo(runs[r].sha, ExternalBranch,
                                                SubmoduleName, runs[r].prUrl)
           options == [removeSourceBranch |-> TRUE, title |-> info.title,
                       description |-> info.description]
       IN  IF Len(runs[r].listing) > 0
           THEN LET existingMr == runs[r].listing[1]
                IN  \E ok \in BOOLEAN :
                      IF ok
                      THEN /\ mrs' = [mrs EXCEPT ![existingMr.iid] =
                                        [@ EXCEPT !.title = options.title,
                                                  !.description = options.description,
                                                  !.rsb = TRUE]]
                           /\ runs' = [runs EXCEPT ![r] =
                                [Ended(runs[r], "ok") EXCEPT
                                          !.changed = @ \/ mrs' # mrs,
                                          !.ops = Append(@, MrCall("MergeRequests.edit",
                                                  TRUE, existingMr.iid, options))]]
                      ELSE /\ FailRun(r, "RestError",
                                  <<MrCall("MergeRequests.edit", FALSE,
                                           existingMr.iid, options)>>)
                           /\ UNCHANGED mrs
           ELSE \E res \in {"created", "noIid", "error"} :
                  /\ res = "created" => Len(mrs) < MaxMRs
                  /\ IF res = "error"
                     THEN /\ FailRun(r, "RestError",
                                 <<MrCall("MergeRequests.create", FALSE, 0, options)>>)
                          /\ UNCHANGED mrs
                     ELSE IF res = "noIid"
                     THEN \* the response carries no iid: nothing was created
                          /\ FailRun(r, "MRNotCreated",
                                 <<MrCall("MergeRequests.create", TRUE, 0, options)>>)
                          /\ UNCHANGED mrs
                     ELSE /\ mrs' = Append(mrs,
                                 [source |-> gitlabSourceBranch, target |-> TargetBranch,
                                  state |-> "opened", title |-> options.title,
                                  description |-> options.description, rsb |-> TRUE])
                          /\ runs' = [runs EXCEPT ![r] =
                               [Ended(runs[r], "ok") EXCEPT
                                  !.changed = TRUE,
                                  !.ops = Append(@, MrCall("MergeRequests.create", TRUE,
                                                 Len(mrs) + 1, options))]]
    /\ UNCHANGED <<target, sync, fs, prev, call, gitmodules>>

-----------------------------------------------------------------------------
(* merge-mr.                                                               *)

\* a line of a diff text, ending in "\n"
DiffLine(sign, text, arg) == <<sign \o text>> \o ShaAtoms(arg) \o <<"\n">>

\* MergeRequests.allDiffs: what GitLab shows for a merge request of branch b,
\* one entry per path the branch changed
MRDiffs(b) ==
    IF ~b.exists \/ b.merged THEN {}
    ELSE { [old_path |-> q, new_path |-> q,
            diff |-> IF q = gitmodules
                     THEN DiffLine("-", "Subproject commit ", b.basePin)
                          \o DiffLine("+", "Subproject commit ", TipPin(b))
                     ELSE DiffLine("+", "text", "")]
           : q \in { x \in UNION {b.commits[i].paths : i \in 1..Len(b.commits)} :
                       x = gitmodules => TipPin(b) # b.basePin } }

\* variant: the searched text does not end in "\n"
DiffIncludesPointer_NoNewline(diff, sha) ==
    Includes(diff, <<"+Subproject commit ">> \o ShaAtoms(sha))

\* diff.diff.includes(`+Subproject commit ${sha}\n`)
DiffIncludesPointer(diff, sha) ==
    Includes(diff, DiffLine("+", "Subproject commit ", sha))

isMRContainsSubmoduleSHA(diffs, githubRepositorySHA) ==
    \E d \in diffs :
        /\ d.new_path = "monite-sdk"
        /\ d.old_path = "monite-sdk"
        /\ DiffIncludesPointer(d.diff, githubRepositorySHA)

\* variant: the conflict flag is not looked at
HasConflicts_Ignored(existingMr) == existingMr.has_conflicts /\ FALSE

\* if (existingMr.has_conflicts) throw ...
HasConflicts(existingMr) == existingMr.has_conflicts

\* the head commit of a merge request's source branch, as the host names it
\* in the field `sha`: branches with the same commits have the same head
HeadSHA(b) == [b EXCEPT !.merged = FALSE]

\* mergeMr up to the conflict check: listing, multiplicity, presence, conflicts
mergeListMRs(r) ==
    /\ runs[r].pc = "mlist"
    /\ \E ok \in BOOLEAN, hc \in BOOLEAN :
         LET gitlabSourceBranch == getMRSourceBranchName(SubmoduleName, ExternalBranch)
             found == OpenMRs(gitlabSourceBranch, TargetBranch)
             listing == [i \in 1..Len(found) |->
                           [iid |-> found[i], has_conflicts |-> (i = 1 /\ hc),
                            sha |-> HeadSHA(sync)]]
             listed == [runs[r] EXCEPT !.listing = listing]
         IN  /\ (~ok \/ Len(found) # 1) => ~hc
             /\ IF ~ok
                THEN FailRun(r, "RestError", <<Op("MergeRequests.all", FALSE)>>)
                ELSE IF HasMultipleMRs(listing)
                THEN runs' = [runs EXCEPT ![r] =
                        [Ended(listed, "MultipleMRs") EXCEPT
                                       !.ops = @ \o <<Op("MergeRequests.all", TRUE)>>]]
                ELSE IF Len(listing) = 0
                THEN FailRun(r, "MRNotFound", <<Op("MergeRequests.all", TRUE)>>)
                ELSE IF HasConflicts(listing[1])
                THEN runs' = [runs EXCEPT ![r] =
                        [Ended(listed, "MRHasConflicts") EXCEPT
                                       !.ops = @ \o <<Op("MergeRequests.all", TRUE)>>]]
                ELSE runs' = [runs EXCEPT ![r] =
                        [listed EXCEPT !.pc = "mdiffs",
                                       !.ops = @ \o <<Op("MergeRequests.all", TRUE)>>]]
    /\ UNCHANGED <<target, sync, mrs, fs, prev, call, gitmodules>>

\* mergeMr: the diffs and the check for the expected SHA
mergeCheckDiffs(r) ==
    /\ runs[r].pc = "mdiffs"
    /\ \E ok \in BOOLEAN :
         IF ~ok
         THEN FailRun(r, "RestError", <<Op("MergeRequests.allDiffs", FALSE)>>)
         ELSE IF ~isMRContainsSubmoduleSHA(MRDiffs(sync), runs[r].sha)
         THEN FailRun(r, "MRDiffMissingSHA", <<Op("MergeRequests.allDiffs", TRUE)>>)
         ELSE runs' = [runs EXCEPT ![r] =
                         [@ EXCEPT !.pc = "mmerge",
                                   !.checked = (HeadSHA(sync) = runs[r].listing[1].sha),
                                   !.ops = @ \o <<Op("MergeRequests.allDiffs", TRUE)>>]]
    /\ UNCHANGED <<target, sync, mrs, fs, prev, call, gitmodules>>

\* result.pipeline?.status: "none" when the result carries no pipeline
PipelineStatuses == {"none", "running", "pending", "success", "failed", "canceled"}

\* variant: the merge call carries no expected head
ShaAccepted_Any(expected, head) == TRUE

\* the merge call carries sha: mr.sha, and the host merges only when this is
\* the head of the source branch
ShaAccepted(expected, head) == expected = head

\* GitLab can merge the request now
Mergeable(iid) ==
    /\ mrs[iid].state = "opened"
    /\ sync.exists /\ ~sync.merged
    /\ target.tip < MaxTarget

\* variant: the pipeline status is looked at before the state
ClassifyMergeResult_StatusFirst(state, pipelineStatus) ==
    IF pipelineStatus \in {"canceled", "failed"} THEN "PipelineStatus"
    ELSE IF state = "merged" THEN "ok"
    ELSE IF pipelineStatus = "success" THEN "NotMergedUnknown"
    ELSE "ok"

\* variant: every result that is not merged is an error
ClassifyMergeResult_Strict(state, pipelineStatus) ==
    IF state = "merged" THEN "ok"
    ELSE IF pipelineStatus \in {"canceled", "failed"} THEN "PipelineStatus"
    ELSE "NotMergedUnknown"

\* mergeMr after the merge call: return, or throw one of two errors
ClassifyMergeResult(state, pipelineStatus) ==
    IF state = "merged" THEN "ok"
    ELSE IF pipelineStatus \in {"canceled", "failed"} THEN "PipelineStatus"
    ELSE IF pipelineStatus = "success" THEN "NotMergedUnknown"
    ELSE "ok"

\* variant: a merge call that failed is issued again
mergeCall_Retry(r) ==
    /\ runs[r].pc = "mmerge"
    /\ runs' = [runs EXCEPT ![r] =
                  [@ EXCEPT !.ops = @ \o <<Op("MergeRequests.merge", FALSE)>>]]
    /\ UNCHANGED <<target, sync, mrs, fs, prev, call, gitmodules>>

\* mergeMr: the merge call and the classification of its result
mergeCall(r) ==
    /\ runs[r].pc = "mmerge"
    /\ LET iid == runs[r].listing[1].iid
       IN  \E res \in {"merged", "opened", "error"}, status \in PipelineStatuses :
             /\ res = "merged" => /\ Mergeable(iid)
                                   /\ ShaAccepted(runs[r].listing[1].sha, HeadSHA(sync))
             /\ res = "error" => status = "none"
             /\ IF res = "error"
                THEN /\ FailRun(r, "RestError", <<Op("MergeRequests.merge", FALSE)>>)
                     /\ UNCHANGED <<target, sync, mrs>>
                ELSE /\ runs' = [runs EXCEPT ![r] =
                          [Ended(runs[r], ClassifyMergeResult(res, status)) EXCEPT
                                    !.result = [state |-> res, status |-> status],
                                    !.changed = @ \/ res = "merged",
                                    !.ops = @ \o <<Op("MergeRequests.merge", TRUE)>>]]
                     /\ IF res = "merged"
                        THEN /\ mrs' = [mrs EXCEPT ![iid].state = "merged"]
                             /\ target' = [tip |-> target.tip + 1, pin |-> TipPin(sync)]
                             /\ sync' = IF mrs[iid].rsb THEN NoBranch
                                        ELSE [sync EXCEPT !.merged = TRUE]
                        ELSE UNCHANGED <<target, sync, mrs>>
    /\ UNCHANGED <<fs, prev, call, gitmodules>>

-----------------------------------------------------------------------------
(* The end of a run, and the environment.                                  *)

\* the call a successful sync-branch run made on the merge request
LastCall(rec) == rec.ops[Len(rec.ops)]

\* the process exits; the next invocation starts from nothing
Finish(r) ==
    /\ runs[r].pc = "done"
    /\ prev' = IF runs[r].kind = "sync" /\ runs[r].outcome = "ok"
               THEN [valid |-> TRUE, kind |-> "sync", sha |-> runs[r].sha,
                     call |-> LastCall(runs[r]).op, iid |-> LastCall(runs[r]).iid]
               ELSE NoPrev
    /\ runs' = [runs EXCEPT ![r] = IdleRun]
    /\ UNCHANGED <<target, sync, mrs, fs, call, gitmodules>>

\* somebody pushes to the target branch
TargetAdvance ==
    /\ target.tip < MaxTarget
    /\ \E p \in SHAs : target' = [tip |-> target.tip + 1, pin |-> p]
    /\ UNCHANGED <<sync, mrs, fs>>

ForeignCommit(m) == [msg |-> m, paths |-> {"README.md"}, pin |-> NoSHA]

\* somebody pushes a commit to the sync branch, creating it if need be
ForeignPush ==
    /\ \E m \in ForeignMessages :
         IF sync.exists
         THEN /\ ~sync.merged
              /\ Cardinality({i \in 1..Len(sync.commits) :
                                sync.commits[i].pin = NoSHA}) < MaxForeign
              /\ sync' = [sync EXCEPT !.commits = Append(@, ForeignCommit(m))]
         ELSE sync' = [BranchAt(target) EXCEPT !.commits = <<ForeignCommit(m)>>]
    /\ UNCHANGED <<target, mrs, fs>>

\* somebody deletes the sync branch (the remedy the drift message names)
DeleteBranch ==
    /\ sync.exists
    /\ OpenMRs(createMRSourceBranchName(SubmoduleName, ExternalBranch), TargetBranch) = <<>>
    /\ sync' = NoBranch
    /\ UNCHANGED <<target, mrs, fs>>

\* somebody opens a merge request from the sync branch by hand
HumanOpensMR ==
    /\ Len(mrs) < MaxMRs
    /\ sync.exists
    /\ mrs' = Append(mrs, [source |-> createMRSourceBranchName(SubmoduleName, ExternalBranch),
                           target |-> TargetBranch,
                           state |-> "opened", title |-> "manual",
                           description |-> "manual", rsb |-> FALSE])
    /\ UNCHANGED <<target, sync, fs>>

Quiescent == \A r \in RunIds : runs[r].pc = "idle"

\* between two invocations the environment acts
EnvSeq(A) == Quiescent /\ A /\ prev' = NoPrev /\ UNCHANGED <<runs, call, gitmodules>>

-----------------------------------------------------------------------------
(* Sequential invocations.                                                 *)

Next ==
    \/ \E r \in SeqRunIds, sha \in ShaInputs, u \in PrUrlEnv :
         Start(r, "sync", sha, u)
    \/ \E r \in SeqRunIds, sha \in MergeShaInputs :
         Start(r, "merge", sha, "unset")
    \/ \E r \in SeqRunIds : TempDirNew(r)
    \/ \E r \in SeqRunIds : cloneGitlabRepo(r)
    \/ \E r \in SeqRunIds : checkoutGitlabSourceBranch(r)
    \/ \E r \in SeqRunIds : validateIsSubmoduleSyncBranch(r)
    \/ \E r \in SeqRunIds : resetGitlabRepoBranch(r)
    \/ \E r \in SeqRunIds : checkoutSubmoduleBranch(r)
    \/ \E r \in SeqRunIds : commitGitlabRepoChanges(r)
    \/ \E r \in SeqRunIds : pushGitlabRepoChanges(r)
    \/ \E r \in SeqRunIds : syncListMRs(r)
    \/ \E r \in SeqRunIds : syncUpsertMR(r)
    \/ \E r \in SeqRunIds : mergeListMRs(r)
    \/ \E r \in SeqRunIds : mergeCheckDiffs(r)
    \/ \E r \in SeqRunIds : mergeCall(r)
    \/ \E r \in SeqRunIds : Finish(r)
    \/ EnvSeq(TargetAdvance)
    \/ EnvSeq(ForeignPush)
    \/ EnvSeq(DeleteBranch)
    \/ EnvSeq(HumanOpensMR)

Spec == Init /\ [][Next]_vars

-----------------------------------------------------------------------------
(* Projects that keep the submodule at one path or another.                *)

GitmodulesPaths == {"monite-sdk", "packages/my-sdk"}

PathsInit ==
    /\ target = [tip |-> 0, pin |-> "abc123"]
    /\ sync = NoBranch
    /\ mrs = <<>>
    /\ fs = [p \in Paths |-> "absent"]
    /\ runs = [r \in RunIds |-> IdleRun]
    /\ prev = NoPrev
    /\ call = NoCall
    /\ gitmodules \in GitmodulesPaths

PathsSpec == PathsInit /\ [][Next]_vars

-----------------------------------------------------------------------------
(* One sync-branch run while somebody pushes to the sync branch: the push  *)
(* of the person may fall between any two steps of the run.                *)

\* the environment acts whether or not a run is in progress
EnvAnyTime(A) == A /\ UNCHANGED <<runs, prev, call, gitmodules>>

RaceNext ==
    \/ \E r \in SeqRunIds, sha \in SHAs : Start(r, "sync", sha, "unset")
    \/ \E r \in SeqRunIds : TempDirNew(r)
    \/ \E r \in SeqRunIds : cloneGitlabRepo(r)
    \/ \E r \in SeqRunIds : checkoutGitlabSourceBranch(r)
    \/ \E r \in SeqRunIds : validateIsSubmoduleSyncBranch(r)
    \/ \E r \in SeqRunIds : resetGitlabRepoBranch(r)
    \/ \E r \in SeqRunIds : checkoutSubmoduleBranch(r)
    \/ \E r \in SeqRunIds : commitGitlabRepoChanges(r)
    \/ \E r \in SeqRunIds : pushGitlabRepoChanges(r)
    \/ \E r \in SeqRunIds : syncListMRs(r)
    \/ \E r \in SeqRunIds : syncUpsertMR(r)
    \/ EnvAnyTime(ForeignPush)


-----------------------------------------------------------------------------
(* Sequential invocations on a project that a sync-branch run has left     *)
(* with the sync branch pushed and its merge request open.                 *)

\* the sync branch after a sync-branch run with --sha def456 on the target
\* of Init
SyncedBranch ==
    [BranchAt([tip |-> 0, pin |-> "abc123"]) EXCEPT
        !.commits = <<[msg |-> SyncCommitMessage(SubmoduleName, ExternalBranch,
                                                 commitMessageSalt),
                       paths |-> {SubmodulePath}, pin |-> "def456"]>>]

\* the merge request that run created
SyncedMR ==
    LET info == createGitlabMergeRequestInfo("def456", ExternalBranch, SubmoduleName,
                                             "unset")
    IN  [source |-> createMRSourceBranchName(SubmoduleName, ExternalBranch),
         target |-> TargetBranch, state |-> "opened", title |-> info.title,
         description |-> info.description, rsb |-> TRUE]

SyncedInit ==
    /\ target = [tip |-> 0, pin |-> "abc123"]
    /\ sync = SyncedBranch
    /\ mrs = <<SyncedMR>>
    /\ fs = [p \in Paths |-> "absent"]
    /\ runs = [r \in RunIds |-> IdleRun]
    /\ prev = NoPrev
    /\ call = NoCall
    /\ gitmodules = SubmodulePath

SyncedSpec == SyncedInit /\ [][Next]_vars

\* a merge-mr run and a sync-branch run on a project that has its sync
\* branch and its merge request, each started once, their steps interleaved
MergeRaceNext ==
    \/ \E sha \in SHAs : Start("r1", "merge", sha, "unset")
    \/ \E sha \in SHAs : Start("r2", "sync", sha, "unset")
    \/ mergeListMRs("r1")
    \/ mergeCheckDiffs("r1")
    \/ mergeCall("r1")
    \/ TempDirNew("r2")
    \/ cloneGitlabRepo("r2")
    \/ checkoutGitlabSourceBranch("r2")
    \/ validateIsSubmoduleSyncBranch("r2")
    \/ resetGitlabRepoBranch("r2")
    \/ checkoutSubmoduleBranch("r2")
    \/ commitGitlabRepoChanges("r2")
    \/ pushGitlabRepoChanges("r2")
    \/ syncListMRs("r2")
    \/ syncUpsertMR("r2")

MergeRaceSpec == SyncedInit /\ [][MergeRaceNext]_vars

\* the race starts on a fresh project or on one that has its sync branch
RaceInit == Init \/ SyncedInit

RaceSpec == RaceInit /\ [][RaceNext]_vars

-----------------------------------------------------------------------------
(* One run of either command, started once on a fresh project or on one    *)
(* that has its sync branch and merge request; every external call         *)
(* returns, so a run that can take a step takes it.                        *)

OneRunNext ==
    \/ \E r \in SeqRunIds, sha \in ShaInputs : Start(r, "sync", sha, "unset")
    \/ \E r \in SeqRunIds, sha \in MergeShaInputs : Start(r, "merge", sha, "unset")
    \/ \E r \in SeqRunIds : TempDirNew(r)
    \/ \E r \in SeqRunIds : cloneGitlabRepo(r)
    \/ \E r \in SeqRunIds : checkoutGitlabSourceBranch(r)
    \/ \E r \in SeqRunIds : validateIsSubmoduleSyncBranch(r)
    \/ \E r \in SeqRunIds : resetGitlabRepoBranch(r)
    \/ \E r \in SeqRunIds : checkoutSubmoduleBranch(r)
    \/ \E r \in SeqRunIds : commitGitlabRepoChanges(r)
    \/ \E r \in SeqRunIds : pushGitlabRepoChanges(r)
    \/ \E r \in SeqRunIds : syncListMRs(r)
    \/ \E r \in SeqRunIds : syncUpsertMR(r)
    \/ \E r \in SeqRunIds : mergeListMRs(r)
    \/ \E r \in SeqRunIds : mergeCheckDiffs(r)
    \/ \E r \in SeqRunIds : mergeCall(r)

\* the steps of a run
RunStep(r) ==
    \/ TempDirNew(r)
    \/ cloneGitlabRepo(r)
    \/ checkoutGitlabSourceBranch(r)
    \/ validateIsSubmoduleSyncBranch(r)
    \/ resetGitlabRepoBranch(r)
    \/ checkoutSubmoduleBranch(r)
    \/ commitGitlabRepoChanges(r)
    \/ pushGitlabRepoChanges(r)
    \/ syncListMRs(r)
    \/ syncUpsertMR(r)
    \/ mergeListMRs(r)
    \/ mergeCheckDiffs(r)
    \/ mergeCall(r)

OneRunSpec ==
    /\ RaceInit
    /\ [][OneRunNext]_vars
    /\ \A r \in SeqRunIds : WF_vars(RunStep(r))

-----------------------------------------------------------------------------
(* Two runs of sync-branch on one host, each started once, in any order    *)
(* and overlap, sharing the directory the workspaces are created in.       *)

\* the values Date.now() gives the directory names of the runs
WsPaths == {"gitlab-sync-1", "gitlab-sync-2"}

WsShaInputs == {"def456"}

\* the steps of upsertBranch that run while the TempDir is held
UpsertPcs == {"clone", "checkout", "validate", "reset", "pin", "commit", "push"}

\* a git step of run r finds its clone removed or replaced by another run
\* that was given the same directory: simpleGit({ baseDir }) or the first
\* git command of the step fails, and the run disposes the directory
WorkspaceGone(r) ==
    /\ runs[r].pc \in UpsertPcs \ {"clone"}
    /\ fs[runs[r].path] # r
    /\ FailUpsert(r, "WorkspaceGone", <<>>)
    /\ UNCHANGED <<target, sync, mrs, prev, call, gitmodules>>

\* the host terminates the process inside upsertBranch (a cancelled job, a
\* timeout): no handler is registered, so nothing of the program runs
Kill(r) ==
    /\ runs[r].pc \in UpsertPcs
    /\ runs' = [runs EXCEPT ![r] = [@ EXCEPT !.pc = "done", !.outcome = "Killed"]]
    /\ UNCHANGED <<target, sync, mrs, fs, prev, call, gitmodules>>

WsInit ==
    /\ target = [tip |-> 0, pin |-> "abc123"]
    /\ sync = NoBranch
    /\ mrs = <<>>
    /\ fs = [p \in WsPaths |-> "absent"]
    /\ runs = [r \in RunIds |-> IdleRun]
    /\ prev = NoPrev
    /\ call = NoCall
    /\ gitmodules = SubmodulePath

WsNext ==
    \/ \E r \in RunIds, sha \in WsShaInputs : Start(r, "sync", sha, "unset")
    \/ \E r \in RunIds : TempDirNew(r)
    \/ \E r \in RunIds : cloneGitlabRepo(r)
    \/ \E r \in RunIds : checkoutGitlabSourceBranch(r)
    \/ \E r \in RunIds : validateIsSubmoduleSyncBranch(r)
    \/ \E r \in RunIds : resetGitlabRepoBranch(r)
    \/ \E r \in RunIds : checkoutSubmoduleBranch(r)
    \/ \E r \in RunIds : commitGitlabRepoChanges(r)
    \/ \E r \in RunIds : pushGitlabRepoChanges(r)
    \/ \E r \in RunIds : syncListMRs(r)
    \/ \E r \in RunIds : syncUpsertMR(r)
    \/ \E r \in RunIds : WorkspaceGone(r)
    \/ \E r \in RunIds : Kill(r)

WorkspaceSpec == WsInit /\ [][WsNext]_vars

-----------------------------------------------------------------------------
(* The branch-name functions on drawn arguments.                           *)

SubmoduleNames == {"my-sdk", "my-sdk/feature", "ui"}
ExternalBranches == {"feature/x", "x", "main"}

NamesInit ==
    /\ target = [tip |-> 0, pin |-> "abc123"]
    /\ sync = NoBranch
    /\ mrs = <<>>
    /\ fs = [p \in Paths |-> "absent"]
    /\ runs = [r \in RunIds |-> IdleRun]
    /\ prev = NoPrev
    /\ gitmodules = SubmodulePath
    /\ call \in [name : SubmoduleNames, branch : ExternalBranches,
                 name2 : SubmoduleNames, branch2 : ExternalBranches,
                 sync : {NoName}, again : {NoName}, other : {NoName},
                 merge : {NoName}]

\* syncBranch derives the name of the source branch
NameForSync ==
    /\ call.sync = NoName
    /\ call' = [call EXCEPT !.sync = createMRSourceBranchName(call.name, call.branch)]
    /\ UNCHANGED <<target, sync, mrs, fs, runs, prev, gitmodules>>

\* a later sync-branch run derives it from the same arguments
NameForSyncAgain ==
    /\ call.sync # NoName
    /\ call.again = NoName
    /\ call' = [call EXCEPT !.again = createMRSourceBranchName(call.name, call.branch)]
    /\ UNCHANGED <<target, sync, mrs, fs, runs, prev, gitmodules>>

\* a sync-branch run for the second pair of arguments
NameForOther ==
    /\ call.other = NoName
    /\ call' = [call EXCEPT !.other = createMRSourceBranchName(call.name2, call.branch2)]
    /\ UNCHANGED <<target, sync, mrs, fs, runs, prev, gitmodules>>

\* mergeMr derives the name of the source branch
NameForMerge ==
    /\ call.merge = NoName
    /\ call' = [call EXCEPT !.merge = getMRSourceBranchName(call.name, call.branch)]
    /\ UNCHANGED <<target, sync, mrs, fs, runs, prev, gitmodules>>

NamesNext ==
    \/ NameForSync
    \/ NameForSyncAgain
    \/ NameForOther
    \/ NameForMerge

NamesSpec == NamesInit /\ [][NamesNext]_vars

-----------------------------------------------------------------------------
(* The errors the git operations of upsertBranch surface, for two          *)
(* invocations that differ in the access token only.                       *)

Tokens == {"glpat-A", "glpat-B"}

\* the failures of the git operations that leave upsertBranch (the failures
\* of the fetch and the checkout of the own ref are taken by the fallback)
GitFailures ==
    {"CloneFailed", "ConfigEmail", "ConfigName", "FetchTarget", "CheckoutTarget",
     "LogFailed", "ResetFailed", "SubmodulePathFailed", "ListRemoteFailed",
     "SubmoduleInit", "SubmoduleFetch", "SubmoduleCheckoutBranch",
     "SubmoduleCheckoutSHA", "RevParseFailed", "AddFailed", "CommitFailed",
     "PushFailed"}

\* what git may report on a rejected operation: the remote URL of the clone
\* is https://<user>:<token>@<host>/<project>.git
Diagnostics(token) ==
    { <<"fatal: unable to access 'https://bot:", token, "@gitlab.example/group/project.git/'">>,
      <<"fatal: not a git repository">> }

\* the message each catch handler builds
ErrorMessage(err, branch, targetBranch, name, sha) ==
    CASE err = "CloneFailed" -> <<"Failed to clone GitLab repository">>
      [] err = "ConfigEmail" -> <<"Failed to set user email in Git config">>
      [] err = "ConfigName" -> <<"Failed to set user name in Git config">>
      [] err = "FetchTarget" -> <<"Failed to fetch ", targetBranch, " branch from origin">>
      [] err = "CheckoutTarget" -> <<"Failed to checkout ", targetBranch, " branch from origin">>
      [] err = "LogFailed" -> <<"Failed to get log from Git">>
      [] err = "ResetFailed" -> <<"Failed to reset hard">>
      [] err = "SubmodulePathFailed" -> <<"Failed to get submodule path">>
      [] err = "ListRemoteFailed" -> <<"Failed to list submodule remote">>
      [] err = "SubmoduleInit" -> <<"Failed to submodule init">>
      [] err = "SubmoduleFetch" -> <<"Failed to fetch submodule origin branch ", branch>>
      [] err = "SubmoduleCheckoutBranch" -> <<"Failed to checkout submodule branch ", branch>>
      [] err = "SubmoduleCheckoutSHA" -> <<"Failed to checkout submodule SHA ", sha>>
      [] err = "RevParseFailed" -> <<"Failed to validate submodule branch ", branch, " HEAD is ", sha>>
      [] err = "AddFailed" -> <<"Failed to add submodule ", name>>
      [] err = "CommitFailed" -> <<"Failed to commit submodule ", name>>
      [] err = "PushFailed" -> <<"Failed to push to the origin branch related to the GitHub repository branch ", branch>>

\* variant: the handler passes the rejection on
SurfacedMessage_Raw(err, branch, targetBranch, name, sha, diag) ==
    ErrorMessage(err, branch, targetBranch, name, sha) \o diag

\* .catch(() => { throw new Error(<message>) }): the handler takes no
\* argument, the rejection of simple-git is dropped
SurfacedMessage(err, branch, targetBranch, name, sha, diag) ==
    ErrorMessage(err, branch, targetBranch, name, sha)

\* no error surfaced yet
NoMessage == <<>>

MsgInit ==
    /\ target = [tip |-> 0, pin |-> "abc123"]
    /\ sync = NoBranch
    /\ mrs = <<>>
    /\ fs = [p \in Paths |-> "absent"]
    /\ runs = [r \in RunIds |-> IdleRun]
    /\ prev = NoPrev
    /\ gitmodules = SubmodulePath
    /\ \E err \in GitFailures, branch \in ExternalBranches, sha \in SHAs,
          tokenA \in Tokens, tokenB \in Tokens :
       \E diagA \in Diagnostics(tokenA), diagB \in Diagnostics(tokenB) :
         call = [err |-> err, branch |-> branch, sha |-> sha,
                 tokenA |-> tokenA, tokenB |-> tokenB,
                 diagA |-> diagA, diagB |-> diagB,
                 msgA |-> NoMessage, msgB |-> NoMessage]

\* the operation fails in the invocation with the first token
SurfaceA ==
    /\ call.msgA = NoMessage
    /\ call' = [call EXCEPT !.msgA =
                   SurfacedMessage(call.err, call.branch, TargetBranch,
                                   SubmoduleName, call.sha, call.diagA)]
    /\ UNCHANGED <<target, sync, mrs, fs, runs, prev, gitmodules>>

\* the same operation fails in the invocation with the second token
SurfaceB ==
    /\ call.msgB = NoMessage
    /\ call' = [call EXCEPT !.msgB =
                   SurfacedMessage(call.err, call.branch, TargetBranch,
                                   SubmoduleName, call.sha, call.diagB)]
    /\ UNCHANGED <<target, sync, mrs, fs, runs, prev, gitmodules>>

MsgNext ==
    \/ SurfaceA
    \/ SurfaceB

MessagesSpec == MsgInit /\ [][MsgNext]_vars

-----------------------------------------------------------------------------
(* The provenance checks of the two implementations of upsertBranch        *)
(* (lib/temp-dir.ts and lib/upsert-branch.ts) on drawn commit logs.        *)

MaxLogLen == 3

\* messages of commits between the target's tip and the sync branch's tip
LogMessages ==
    { SyncCommitMessage(SubmoduleName, ExternalBranch, commitMessageSalt),
      OrdinaryMessage,
      <<"re", commitMessageSalt, "ed">> }

RECURSIVE LogsOfLen(_)
LogsOfLen(n) ==
    IF n = 0 THEN {<<>>}
    ELSE {Append(l, m) : l \in LogsOfLen(n - 1), m \in LogMessages}

Logs == UNION {LogsOfLen(n) : n \in 0..MaxLogLen}

\* String(logItem) in upsert-branch.ts: simple-git's log entries are objects
\* (a format that is a string is not taken, the default fields are), and
\* RegExp.prototype.test converts its argument to a string
ObjectToString(logItem) == <<"[object Object]">>

\* new RegExp(`\b${salt}\b`) in upsert-branch.ts: in a template literal \b is
\* the backspace character, so the pattern is <BS>salt<BS>
BackspaceRegexTest(text, salt) == Includes(text, <<"<BS>", salt, "<BS>">>)

\* upsert-branch.ts: log.all.some(logItem => regex.test(logItem)) throws
HasMatchingCommit(log, salt) ==
    \E i \in 1..Len(log) : BackspaceRegexTest(ObjectToString(log[i]), salt)

\* no check made yet
NoVerdict == "none"

ValidateInit ==
    /\ target = [tip |-> 0, pin |-> "abc123"]
    /\ sync = NoBranch
    /\ mrs = <<>>
    /\ fs = [p \in Paths |-> "absent"]
    /\ runs = [r \in RunIds |-> IdleRun]
    /\ prev = NoPrev
    /\ gitmodules = SubmodulePath
    /\ \E log \in Logs :
         call = [log |-> log, tempDir |-> NoVerdict, upsertBranch |-> NoVerdict]

\* validateIsSubmoduleSyncBranch of lib/temp-dir.ts after the log was read
ValidateTempDir ==
    /\ call.tempDir = NoVerdict
    /\ call' = [call EXCEPT !.tempDir =
                   IF HasCommitWithoutSalt(call.log, commitMessageSalt)
                   THEN "Drift" ELSE "pass"]
    /\ UNCHANGED <<target, sync, mrs, fs, runs, prev, gitmodules>>

\* validateIsSubmoduleSyncBranch of lib/upsert-branch.ts after the log was read
ValidateUpsertBranch ==
    /\ call.upsertBranch = NoVerdict
    /\ call' = [call EXCEPT !.upsertBranch =
                   IF HasMatchingCommit(call.log, commitMessageSalt)
                   THEN "Drift" ELSE "pass"]
    /\ UNCHANGED <<target, sync, mrs, fs, runs, prev, gitmodules>>

ValidateNext ==
    \/ ValidateTempDir
    \/ ValidateUpsertBranch

ValidateSpec == ValidateInit /\ [][ValidateNext]_vars

-----------------------------------------------------------------------------
(* parseBooleanEnvVar on drawn values of GITLAB_MERGE_WHEN_PIPELINE_SUCCEEDS *)
(* and the option of the merge call that is made of it.                    *)

MaxEnvLen == 4

\* the characters the drawn values are made of
EnvChars == {"t", "T", "r", "u", "e", "1", " "}

RECURSIVE TextsOfLen(_)
TextsOfLen(n) ==
    IF n = 0 THEN {<<>>}
    ELSE {Append(t, c) : t \in TextsOfLen(n - 1), c \in EnvChars}

\* process.env.X: undefined (set = FALSE), or a string
EnvValues ==
    {[set |-> FALSE, text |-> <<>>]}
    \cup {[set |-> TRUE, text |-> t] : t \in UNION {TextsOfLen(n) : n \in 0..MaxEnvLen}}

\* String.prototype.toLowerCase on one character
LowerChar(c) == IF c = "T" THEN "t" ELSE c

ToLowerCase(text) == [i \in 1..Len(text) |-> LowerChar(text[i])]

\* variant: the value is compared as it is
parseBooleanEnvVar_CaseSensitive(value) ==
    (IF value.set THEN value.text ELSE <<>>) \in {<<"t", "r", "u", "e">>, <<"1">>}

\* ['true', '1'].includes(value?.toLowerCase() ?? '')
parseBooleanEnvVar(value) ==
    (IF value.set THEN ToLowerCase(value.text) ELSE <<>>)
        \in {<<"t", "r", "u", "e">>, <<"1">>}

EnvVarInit ==
    /\ target = [tip |-> 0, pin |-> "abc123"]
    /\ sync = NoBranch
    /\ mrs = <<>>
    /\ fs = [p \in Paths |-> "absent"]
    /\ runs = [r \in RunIds |-> IdleRun]
    /\ prev = NoPrev
    /\ gitmodules = SubmodulePath
    /\ \E v \in EnvValues :
         call = [value |-> v, built |-> FALSE, mergeWhenPipelineSucceeds |-> FALSE]

\* mergeMr builds the options of the merge call
BuildMergeOptions ==
    /\ ~call.built
    /\ call' = [call EXCEPT !.built = TRUE,
                            !.mergeWhenPipelineSucceeds = parseBooleanEnvVar(call.value)]
    /\ UNCHANGED <<target, sync, mrs, fs, runs, prev, gitmodules>>

EnvVarSpec == EnvVarInit /\ [][BuildMergeOptions]_vars

-----------------------------------------------------------------------------
(* Title and description of the merge request on drawn arguments and       *)
(* values of GITHUB_PR_URL.                                                *)

\* no text derived yet
NoText == ""

MRInfoInit ==
    /\ target = [tip |-> 0, pin |-> "abc123"]
    /\ sync = NoBranch
    /\ mrs = <<>>
    /\ fs = [p \in Paths |-> "absent"]
    /\ runs = [r \in RunIds |-> IdleRun]
    /\ prev = NoPrev
    /\ gitmodules = SubmodulePath
    /\ call \in [env : PrUrlValues, name : SubmoduleNames, branch : ExternalBranches,
                 sha : SHAs, title : {NoText}, description : {NoText}]

\* syncBranch derives the options of the create or edit call
DeriveMRInfo ==
    /\ call.title = NoText
    /\ LET info == createGitlabMergeRequestInfo(call.sha, call.branch, call.name, call.env)
       IN  call' = [call EXCEPT !.title = info.title, !.description = info.description]
    /\ UNCHANGED <<target, sync, mrs, fs, runs, prev, gitmodules>>

MRInfoSpec == MRInfoInit /\ [][DeriveMRInfo]_vars

-----------------------------------------------------------------------------
(* upsertBranch on a remote whose refs are looked up by name, for drawn    *)
(* submodule names, external branches and target branches.                 *)

RefSubmoduleNames == {"my-sdk", "release"}
RefExternalBranches == {"feature/x", "v1"}
RefTargetBranches == {"main", "release/v1"}

\* the branch a clone checks out
DefaultBranches == {"main", "release/v1"}

\* the names of the refs of the remote
RefNames ==
    RefTargetBranches \cup DefaultBranches
    \cup {createMRSourceBranchName(n, b) : n \in RefSubmoduleNames, b \in RefExternalBranches}

\* a ref the remote does not have
NoRef == [exists |-> FALSE, commits |-> <<>>]

RootCommit == [msg |-> OrdinaryMessage, paths |-> {SubmodulePath}, pin |-> "abc123"]

\* the histories a ref of the remote starts with: the root commit, or the
\* root commit and a commit of somebody
RefHistories ==
    {[exists |-> TRUE, commits |-> h] :
        h \in {<<RootCommit>>, <<RootCommit, ForeignCommit(OrdinaryMessage)>>}}

RECURSIVE CommonPrefixLen(_, _)
CommonPrefixLen(a, b) ==
    IF a = <<>> \/ b = <<>> \/ a[1] # b[1] THEN 0
    ELSE 1 + CommonPrefixLen(Tail(a), Tail(b))

\* git log a...b on two histories: the messages of the commits one of them
\* holds and the other does not
SymmetricLog(a, b) ==
    LET n == CommonPrefixLen(a, b)
    IN  [i \in 1..(Len(b) - n) |-> b[n + i].msg] \o [i \in 1..(Len(a) - n) |-> a[n + i].msg]

RefsInit ==
    /\ target = [tip |-> 0, pin |-> "abc123"]
    /\ sync = NoBranch
    /\ mrs = <<>>
    /\ fs = [p \in Paths |-> "absent"]
    /\ runs = [r \in RunIds |-> IdleRun]
    /\ prev = NoPrev
    /\ gitmodules = SubmodulePath
    /\ \E n \in RefSubmoduleNames, b \in RefExternalBranches, t \in RefTargetBranches,
          d \in DefaultBranches, sha \in SHAs, refs \in [RefNames -> RefHistories \cup {NoRef}] :
         /\ refs[t].exists
         /\ refs[d].exists
         /\ call = [name |-> n, branch |-> b, targetBranch |-> t, defaultBranch |-> d,
                    sha |-> sha, sourceBranch |-> createMRSourceBranchName(n, b),
                    refs |-> refs, refs0 |-> refs, local |-> NoRef,
                    pc |-> "checkout", outcome |-> "none", pushed |-> <<>>]

RefsFail(err) == call' = [call EXCEPT !.pc = "done", !.outcome = err]

\* git checkout -b <name> <start>: fails when the start point is missing or a
\* local branch of that name exists; after the clone the local branch is the
\* default branch
CanCheckoutBranch(name, start) ==
    /\ call.refs[start].exists
    /\ name # call.defaultBranch

RefsCheckout ==
    /\ call.pc = "checkout"
    /\ IF CanCheckoutBranch(call.sourceBranch, call.sourceBranch)
       THEN call' = [call EXCEPT !.pc = "reset", !.local = call.refs[call.sourceBranch]]
       ELSE IF CanCheckoutBranch(call.sourceBranch, call.targetBranch)
       THEN call' = [call EXCEPT !.pc = "reset", !.local = call.refs[call.targetBranch]]
       ELSE RefsFail("CheckoutTarget")
    /\ UNCHANGED <<target, sync, mrs, fs, runs, prev, gitmodules>>

RefsReset ==
    /\ call.pc = "reset"
    /\ IF HasCommitWithoutSalt(SymmetricLog(call.refs[call.targetBranch].commits,
                                            call.local.commits),
                               commitMessageSalt)
       THEN RefsFail("Drift")
       ELSE call' = [call EXCEPT !.pc = "commit", !.local = call.refs[call.targetBranch]]
    /\ UNCHANGED <<target, sync, mrs, fs, runs, prev, gitmodules>>

RefsCommit ==
    /\ call.pc = "commit"
    /\ LET staged == call.sha # LastPin(call.local.commits, NoSHA)
           commit == [msg |-> SyncCommitMessage(call.name, call.branch, commitMessageSalt),
                      paths |-> {SubmodulePath}, pin |-> call.sha]
       IN  call' = [call EXCEPT !.pc = "push",
                                !.local.commits =
                                    IF staged THEN Append(@, commit) ELSE @]
    /\ UNCHANGED <<target, sync, mrs, fs, runs, prev, gitmodules>>

\* git push origin <source> --force
RefsPush ==
    /\ call.pc = "push"
    /\ call' = [call EXCEPT !.pc = "done", !.outcome = "ok",
                            !.refs[call.sourceBranch] = call.local,
                            !.pushed = Append(@, call.sourceBranch)]
    /\ UNCHANGED <<target, sync, mrs, fs, runs, prev, gitmodules>>

RefsNext ==
    \/ RefsCheckout
    \/ RefsReset
    \/ RefsCommit
    \/ RefsPush

RefsSpec == RefsInit /\ [][RefsNext]_vars

-----------------------------------------------------------------------------
(* Properties.                                                             *)

SyncBranchName == createMRSourceBranchName(SubmoduleName, ExternalBranch)

IsSyncRun(r) == runs[r].kind = "sync"
IsMergeRun(r) == runs[r].kind = "merge"

\* the range origin/<target>..<sync branch> of the remote sync branch holds a
\* commit whose message lacks the salt as a word
RangeHasUnsaltedCommit ==
    \E i \in 1..Len(SyncOnlyLog(sync)) :
        ~SaltRegexTest(SyncOnlyLog(sync)[i], commitMessageSalt)

\* C1: drift safety. A sync-branch run that checked out the sync branch from
\* its own ref and read the log, while the range origin/<target>..<sync branch>
\* holds a commit without the salt, has ended with the drift error and has
\* issued neither the reset, nor the add and commit, nor the push.
C1_DriftSafety ==
    \A r \in RunIds :
        (/\ IsSyncRun(r)
         /\ Succeeded(r, "checkout.sync")
         /\ Succeeded(r, "log")
         /\ RangeHasUnsaltedCommit)
        => /\ runs[r].pc = "done"
           /\ runs[r].outcome = "Drift"
           /\ ~Issued(r, "reset")
           /\ ~Issued(r, "add")
           /\ ~Issued(r, "commit")
           /\ ~Issued(r, "push")

\* a run ended with the drift error on a branch that holds an engine commit
\* and an unsalted commit on top of it
C1_Witness ==
    \E r \in RunIds :
        /\ IsSyncRun(r)
        /\ runs[r].outcome = "Drift"
        /\ Succeeded(r, "checkout.sync")
        /\ RangeHasUnsaltedCommit
        /\ \E i \in 1..Len(sync.commits) : sync.commits[i].pin # NoSHA

\* C2: single commit. Once a sync-branch run has pushed, the remote sync
\* branch is the target's tip plus exactly one commit, which carries the salt,
\* changes the submodule path only and pins the desired SHA.
C2_SingleSyncCommit ==
    \A r \in RunIds :
        (IsSyncRun(r) /\ Succeeded(r, "push"))
        => /\ sync.exists
           /\ sync.base = target.tip
           /\ Len(sync.commits) = 1
           /\ SaltRegexTest(sync.commits[1].msg, commitMessageSalt)
           /\ sync.commits[1].paths = {SubmodulePath}
           /\ sync.commits[1].pin = runs[r].desired

\* the sync branch holds commits of the engine and no other
OnlyEngineCommits ==
    /\ sync.exists
    /\ ~sync.merged
    /\ sync.commits # <<>>
    /\ \A i \in 1..Len(sync.commits) : sync.commits[i].pin # NoSHA

\* C3: re-runnability. A sync-branch run that checked out a sync branch
\* holding commits of the engine and no other does not end with the drift error.
C3_RerunNeverDrifts ==
    \A r \in RunIds :
        (IsSyncRun(r) /\ Succeeded(r, "checkout.sync") /\ OnlyEngineCommits)
        => runs[r].outcome # "Drift"

\* C4: the name the sync path derives is "<name>/<branch>", a repeated call
\* gives the same name, and the merge path derives the same name from the
\* same arguments.
C4_SameNameOnBothPaths ==
    /\ call.sync # NoName => call.sync = call.name \o "/" \o call.branch
    /\ call.again # NoName => call.again = call.sync
    /\ call.merge # NoName => call.merge = call.name \o "/" \o call.branch
    /\ (call.sync # NoName /\ call.merge # NoName) => call.merge = call.sync

\* both paths derived the name of a branch that itself holds a "/"
C4_Witness ==
    /\ call.sync = "my-sdk/feature/x"
    /\ call.again = "my-sdk/feature/x"
    /\ call.merge = "my-sdk/feature/x"

\* C5: for one submodule name, two different external branches get different
\* sync branch names, and the same external branch gets the same name.
C5_BranchesDoNotCollide ==
    (call.sync # NoName /\ call.other # NoName /\ call.name = call.name2)
    => (call.sync = call.other <=> call.branch = call.branch2)

\* two branches of one submodule were named, and one branch twice
C5_Witness ==
    /\ call.name = call.name2
    /\ call.branch = "feature/x"
    /\ call.branch2 = "x"
    /\ call.sync # NoName
    /\ call.other # NoName
    /\ call.again = call.sync

\* the merge requests of m that are open for the pair (source, target)
OpenForPair(m) ==
    {i \in 1..Len(m) : /\ m[i].source = SyncBranchName
                       /\ m[i].target = TargetBranch
                       /\ m[i].state = "opened"}

\* the calls of run r on merge requests
MrCalls(r, name) == {i \in 1..Len(runs[r].ops) : runs[r].ops[i].op = name}

RunSucceeded(r) == runs[r].pc = "done" /\ runs[r].outcome = "ok"

\* C6: idempotence. When a sync-branch run that created the merge request is
\* followed at once by a successful sync-branch run with the same SHA, the
\* second run issued no create call, its call is an edit of the merge request
\* the first run created, and one merge request is open for the pair.
C6_SecondRunEdits ==
    \A r \in RunIds :
        (/\ IsSyncRun(r)
         /\ RunSucceeded(r)
         /\ prev.valid
         /\ prev.call = "MergeRequests.create"
         /\ prev.sha = runs[r].sha)
        => /\ MrCalls(r, "MergeRequests.create") = {}
           /\ LastCall(runs[r]).op = "MergeRequests.edit"
           /\ LastCall(runs[r]).iid = prev.iid
           /\ OpenForPair(mrs) = {prev.iid}

\* the second of two successful runs with the SHA abc123 has ended
C6_Witness ==
    \E r \in RunIds :
        /\ IsSyncRun(r)
        /\ RunSucceeded(r)
        /\ prev.valid
        /\ prev.call = "MergeRequests.create"
        /\ prev.sha = "abc123"
        /\ runs[r].sha = "abc123"
        /\ Cardinality(MrCalls(r, "MergeRequests.edit")) = 1

\* the sync-branch run r is past the listing and the multiplicity check, and
\* has made its call
PastUpsert(r) ==
    /\ IsSyncRun(r)
    /\ runs[r].pc = "done"
    /\ Succeeded(r, "MergeRequests.all")
    /\ runs[r].outcome # "MultipleMRs"

\* C7: upsert. A sync-branch run whose listing was empty issued exactly one
\* create call, with removeSourceBranch = true, and no edit call; a run whose
\* listing had one element issued exactly one edit call, on the iid listed,
\* with the title and the description derived from the inputs, and no create
\* call.
C7_CreateOrEdit ==
    \A r \in RunIds :
        PastUpsert(r)
        => LET creates == MrCalls(r, "MergeRequests.create")
               edits == MrCalls(r, "MergeRequests.edit")
               sent == LastCall(runs[r])
           IN  /\ Len(runs[r].listing) = 0
                  => /\ Cardinality(creates) = 1
                     /\ edits = {}
                     /\ sent.op = "MergeRequests.create"
                     /\ sent.removeSourceBranch = TRUE
               /\ Len(runs[r].listing) = 1
                  => /\ Cardinality(edits) = 1
                     /\ creates = {}
                     /\ sent.op = "MergeRequests.edit"
                     /\ sent.iid = runs[r].listing[1].iid
                     /\ sent.title = "chore(my-sdk): update submodule to 'feature/x'"
                     /\ sent.description =
                            "This MR updates the <bt>my-sdk<bt> submodule to the SHA commit <bt>"
                            \o runs[r].sha \o "<bt> on the <bt>feature/x<bt> branch."

\* a run with the SHA def456 edited the one open merge request, while an
\* earlier merge request of the pair is merged
C7_Witness ==
    \E r \in RunIds :
        /\ PastUpsert(r)
        /\ Len(runs[r].listing) = 1
        /\ RunSucceeded(r)
        /\ runs[r].sha = "def456"
        /\ mrs[runs[r].listing[1].iid].title = "chore(my-sdk): update submodule to 'feature/x'"
        /\ mrs[runs[r].listing[1].iid].rsb
        /\ \E i \in 1..Len(mrs) : mrs[i].state = "merged" /\ i # runs[r].listing[1].iid

\* C8: multiplicity. A run whose listing succeeded while more than one merge
\* request is open for the pair has ended with the multiple-open-MRs error; a
\* sync-branch run issued neither create nor edit, a merge-mr run fetched no
\* diffs and issued no merge call.
C8_Multiplicity ==
    \A r \in RunIds :
        (Succeeded(r, "MergeRequests.all") /\ Cardinality(OpenForPair(mrs)) > 1)
        => /\ runs[r].pc = "done"
           /\ runs[r].outcome = "MultipleMRs"
           /\ IsSyncRun(r) => /\ MrCalls(r, "MergeRequests.create") = {}
                              /\ MrCalls(r, "MergeRequests.edit") = {}
           /\ IsMergeRun(r) => /\ ~Issued(r, "MergeRequests.allDiffs")
                               /\ ~Issued(r, "MergeRequests.merge")

\* a merge-mr run met two open merge requests, of which the one made by the
\* engine holds the expected SHA
C8_Witness ==
    \E r \in RunIds :
        /\ IsMergeRun(r)
        /\ runs[r].outcome = "MultipleMRs"
        /\ Cardinality(OpenForPair(mrs)) = 2
        /\ isMRContainsSubmoduleSHA(MRDiffs(sync), runs[r].sha)

\* a run made the merge call and it succeeded, in the state after the step
MergeCallMade ==
    \E r \in RunIds :
        /\ Len(runs'[r].ops) = Len(runs[r].ops) + 1
        /\ LastCall(runs'[r]) = Op("MergeRequests.merge", TRUE)

\* C9: single open merge request. A step taken while a run is in progress
\* keeps the number of merge requests open for the pair at one or less if it
\* was so, removes no merge request, opens one only when none is open for the
\* pair, and changes the state of a merge request only from opened to merged,
\* by the merge call.
C9_EngineKeepsOneOpenMR ==
    [][ ~Quiescent
        => /\ Cardinality(OpenForPair(mrs)) <= 1
              => Cardinality(OpenForPair(mrs')) <= 1
           /\ Len(mrs') >= Len(mrs)
           /\ Len(mrs') > Len(mrs)
              => /\ OpenForPair(mrs) = {}
                 /\ Len(mrs') = Len(mrs) + 1
           /\ \A i \in 1..Len(mrs) :
                /\ mrs'[i].source = mrs[i].source
                /\ mrs'[i].target = mrs[i].target
                /\ mrs'[i].state # mrs[i].state
                   => /\ mrs[i].state = "opened"
                      /\ mrs'[i].state = "merged"
                      /\ MergeCallMade ]_vars

\* the engine opened a merge request, merged it, and opened the next one
C9_Witness ==
    /\ Len(mrs) = 2
    /\ mrs[1].state = "merged"
    /\ mrs[1].title # "manual"
    /\ mrs[2].state = "opened"
    /\ mrs[2].title # "manual"
    /\ OpenForPair(mrs) = {2}

\* C10: conflicts. A merge-mr run whose listing named one merge request with
\* has_conflicts = true has ended with the has-conflicts error, has fetched no
\* diffs and has issued no merge call.
C10_ConflictsBlockMerge ==
    \A r \in RunIds :
        (/\ IsMergeRun(r)
         /\ Len(runs[r].listing) = 1
         /\ runs[r].listing[1].has_conflicts)
        => /\ runs[r].pc = "done"
           /\ runs[r].outcome = "MRHasConflicts"
           /\ ~Issued(r, "MergeRequests.allDiffs")
           /\ ~Issued(r, "MergeRequests.merge")
           /\ mrs[runs[r].listing[1].iid].state = "opened"

\* a run ended with the has-conflicts error on a merge request whose diffs
\* hold the expected SHA
C10_Witness ==
    \E r \in RunIds :
        /\ IsMergeRun(r)
        /\ runs[r].outcome = "MRHasConflicts"
        /\ isMRContainsSubmoduleSHA(MRDiffs(sync), runs[r].sha)


\* the merge request of the sync branch changes the submodule pointer to sha
PointerChangedTo(sha) ==
    /\ sync.exists
    /\ ~sync.merged
    /\ TipPin(sync) # sync.basePin
    /\ TipPin(sync) = sha

\* C11: diff check. A merge-mr run that fetched the diffs of the one open
\* merge request, while the merge request does not change the submodule
\* pointer to exactly the expected SHA, has ended with the
\* diff-missing-expected-SHA error and has issued no merge call.
C11_DiffMissingSHA ==
    \A r \in RunIds :
        (/\ IsMergeRun(r)
         /\ Succeeded(r, "MergeRequests.allDiffs")
         /\ mrs[runs[r].listing[1].iid].state = "opened"
         /\ ~PointerChangedTo(runs[r].sha))
        => /\ runs[r].pc = "done"
           /\ runs[r].outcome = "MRDiffMissingSHA"
           /\ ~Issued(r, "MergeRequests.merge")

\* a run with the expected SHA abc failed so on a merge request that changes
\* the pointer to abc123
C11_Witness ==
    \E r \in RunIds :
        /\ IsMergeRun(r)
        /\ runs[r].outcome = "MRDiffMissingSHA"
        /\ runs[r].sha = "abc"
        /\ PointerChangedTo("abc123")
        /\ ~runs[r].listing[1].has_conflicts


\* C12: merge success path. A merge-mr run that fetched the diffs of the one
\* open merge request without conflicts, which changes the pointer at the
\* submodule's path to the expected SHA, does not fail on the diffs: it goes on
\* to the merge call, and it has succeeded when the call returned merged.
C12_MergeSucceeds ==
    \A r \in RunIds :
        (/\ IsMergeRun(r)
         /\ Succeeded(r, "MergeRequests.allDiffs")
         /\ PointerChangedTo(runs[r].sha))
        => /\ runs[r].outcome # "MRDiffMissingSHA"
           /\ runs[r].pc = "done" => Issued(r, "MergeRequests.merge")


\* C13: no merge request. A merge-mr run whose listing succeeded while no
\* merge request is open for the pair, and which merged none, has ended with
\* the MR-not-found error, has fetched no diffs and has issued no merge call.
C13_NotFound ==
    \A r \in RunIds :
        (/\ IsMergeRun(r)
         /\ Succeeded(r, "MergeRequests.all")
         /\ OpenForPair(mrs) = {}
         /\ ~Succeeded(r, "MergeRequests.merge"))
        => /\ runs[r].pc = "done"
           /\ runs[r].outcome = "MRNotFound"
           /\ ~Issued(r, "MergeRequests.allDiffs")
           /\ ~Issued(r, "MergeRequests.merge")

\* a run found nothing although the sync branch exists and an earlier merge
\* request of the pair is merged
C13_Witness ==
    \E r \in RunIds :
        /\ IsMergeRun(r)
        /\ runs[r].outcome = "MRNotFound"
        /\ sync.exists
        /\ \E i \in 1..Len(mrs) : mrs[i].state = "merged"


\* the merge call of run r has returned
MergeReturned(r) ==
    /\ IsMergeRun(r)
    /\ runs[r].pc = "done"
    /\ Succeeded(r, "MergeRequests.merge")

\* C14: classification, failing cases. After a merge call that returned a
\* state other than merged the run has failed naming the pipeline status when
\* the status is canceled or failed, and as an unexplained non-merge when it
\* is success; after a call that returned merged the run has succeeded,
\* whatever the pipeline status.
C14_FailingOutcomes ==
    \A r \in RunIds :
        MergeReturned(r)
        => /\ (runs[r].result.state # "merged"
               /\ runs[r].result.status \in {"canceled", "failed"})
              => runs[r].outcome = "PipelineStatus"
           /\ (runs[r].result.state # "merged" /\ runs[r].result.status = "success")
              => runs[r].outcome = "NotMergedUnknown"
           /\ runs[r].result.state = "merged" => runs[r].outcome = "ok"

\* a call returned merged with a failed pipeline, and the merge request is
\* merged
C14_Witness ==
    \E r \in RunIds :
        /\ MergeReturned(r)
        /\ runs[r].result = [state |-> "merged", status |-> "failed"]
        /\ runs[r].outcome = "ok"
        /\ mrs[runs[r].listing[1].iid].state = "merged"

\* C15: polling contract. After a merge call that returned a state other than
\* merged with a pipeline status other than canceled, failed and success, the
\* run has ended without error; the merge call was its last call and its only
\* merge call, and the merge request is still open.
C15_ReturnsWithoutConfirming ==
    \A r \in RunIds :
        (/\ MergeReturned(r)
         /\ runs[r].result.state # "merged"
         /\ runs[r].result.status \notin {"canceled", "failed", "success"})
        => /\ runs[r].outcome = "ok"
           /\ LastCall(runs[r]).op = "MergeRequests.merge"
           /\ Cardinality(MrCalls(r, "MergeRequests.merge")) = 1
           /\ Cardinality(MrCalls(r, "MergeRequests.all")) = 1
           /\ mrs[runs[r].listing[1].iid].state = "opened"

\* a run ended without error while the pipeline runs and the merge request is
\* open
C15_Witness ==
    \E r \in RunIds :
        /\ MergeReturned(r)
        /\ runs[r].result = [state |-> "opened", status |-> "running"]
        /\ runs[r].outcome = "ok"
        /\ OpenForPair(mrs) = {runs[r].listing[1].iid}


\* C16: pin correctness. In a sync-branch run whose revision lookup returned,
\* the head read back equals the desired SHA, or the run has ended with the
\* SHA-mismatch error and has issued neither add, nor commit, nor push.
C16_PinVerified ==
    \A r \in RunIds :
        (IsSyncRun(r) /\ Succeeded(r, "revparse"))
        => /\ runs[r].subHead = RevParse(runs[r].desired)
           /\ \/ runs[r].subHead = runs[r].desired
              \/ /\ runs[r].pc = "done"
                 /\ runs[r].outcome = "SHAMismatch"
                 /\ ~Issued(r, "add")
                 /\ ~Issued(r, "commit")
                 /\ ~Issued(r, "push")

\* the abbreviated SHA abc was checked out and read back as abc123
C16_Witness ==
    \E r \in RunIds :
        /\ IsSyncRun(r)
        /\ runs[r].outcome = "SHAMismatch"
        /\ runs[r].desired = "abc"
        /\ runs[r].subHead = "abc123"
        /\ Succeeded(r, "submodule.checkout")


\* C17: desired SHA. In a sync-branch run that went on to initialise the
\* submodule, a supplied SHA is the SHA to pin and no remote lookup was made;
\* with none supplied the lookup succeeded and the SHA to pin is the SHA of a
\* head, the first token of its result.
C17_DesiredSHAResolved ==
    \A r \in RunIds :
        (IsSyncRun(r) /\ Issued(r, "submodule.init"))
        => /\ runs[r].sha # NoSHA
              => /\ runs[r].desired = runs[r].sha
                 /\ ~Issued(r, "listRemote")
           /\ runs[r].sha = NoSHA
              => /\ Succeeded(r, "listRemote")
                 /\ runs[r].desired \in SHAs


\* C18: workspace release. Every step that takes a run out of upsertBranch
\* after its workspace was created (success, the failure of a step, or the
\* termination of the process) leaves the directory of the run absent.
C18_WorkspaceReleased ==
    [][\A r \in RunIds :
         (runs[r].pc \in UpsertPcs /\ runs'[r].pc \notin UpsertPcs)
         => fs'[runs[r].path] = "absent"]_vars


\* C19: TempDir constructor. A constructor that resolves a directory holding
\* something fails with the not-empty error and leaves the directory as it
\* was; a constructor that succeeds leaves its directory existing and empty.
C19_ConstructorChecksEmpty ==
    [][\A r \in RunIds :
         (runs[r].pc = "tempdir" /\ runs'[r].pc # "tempdir")
         => LET p == runs'[r].path
            IN  /\ fs[p] \notin {"absent", "empty"}
                   => /\ runs'[r].pc = "done"
                      /\ runs'[r].outcome = "TempDirNotEmpty"
                      /\ fs'[p] = fs[p]
                /\ runs'[r].pc = "clone" => fs'[p] = "empty"]_vars

\* a constructor failed on the directory that holds the other run's clone
C19_Witness ==
    \E r \in RunIds :
        /\ runs[r].outcome = "TempDirNotEmpty"
        /\ fs[runs[r].path] \in RunIds \ {r}


\* C20: workspaces are not shared. Two runs that are both inside
\* upsertBranch, each past its constructor, hold different directories.
C20_WorkspacesDistinct ==
    \A ra \in RunIds, rb \in RunIds :
        (ra # rb /\ runs[ra].pc \in UpsertPcs /\ runs[rb].pc \in UpsertPcs)
        => runs[ra].path # runs[rb].path


\* C21: sanitized failures. The message a failed git operation of
\* upsertBranch surfaces contains neither the access token nor the text git
\* reported, and it is the same in two invocations that differ in the token.
C21_SanitizedFailures ==
    /\ call.msgA # NoMessage
       => /\ \A i \in 1..Len(call.msgA) : call.msgA[i] \notin Tokens
          /\ ~Includes(call.msgA, call.diagA)
    /\ (call.msgA # NoMessage /\ call.msgB # NoMessage) => call.msgA = call.msgB

\* a push failed in both invocations, git naming the URL with the token of each
C21_Witness ==
    /\ call.err = "PushFailed"
    /\ call.tokenA # call.tokenB
    /\ call.tokenA \in {call.diagA[i] : i \in 1..Len(call.diagA)}
    /\ call.tokenB \in {call.diagB[i] : i \in 1..Len(call.diagB)}
    /\ call.msgA # NoMessage
    /\ call.msgB # NoMessage


\* C22: all-or-nothing. A sync-branch run that ended in a failure changed
\* neither the sync branch nor a merge request.
C22_FailedRunChangedNothing ==
    \A r \in RunIds :
        (IsSyncRun(r) /\ runs[r].pc = "done" /\ runs[r].outcome # "ok")
        => ~runs[r].changed


\* C23: faults are terminal. A run that ended with a fault has logged the
\* error and exits with code 1, and every call it issued before the fault
\* succeeded (nothing is taken up again after a failed call, the fallback of
\* the source-branch checkout apart); a run that ended without a fault exits
\* with code 0.
C23_FaultsExitNonZero ==
    \A r \in RunIds :
        (runs[r].pc = "done" /\ runs[r].kind \in {"sync", "merge"})
        => /\ runs[r].outcome # "ok"
              => /\ runs[r].logged
                 /\ runs[r].exit = ExitFailure
                 /\ \A i \in 1..(Len(runs[r].ops) - 1) :
                        runs[r].ops[i].ok \/ runs[r].ops[i].op \in {"fetch.sync", "checkout.sync"}
           /\ runs[r].outcome = "ok"
              => /\ ~runs[r].logged
                 /\ runs[r].exit = ExitSuccess
                 /\ \A i \in 1..Len(runs[r].ops) :
                        runs[r].ops[i].ok \/ runs[r].ops[i].op \in {"fetch.sync", "checkout.sync"}

\* after a successful sync-branch run, a merge-mr run ended with the fault
\* of a failed pipeline
C23_Witness ==
    \E r \in RunIds :
        /\ IsMergeRun(r)
        /\ runs[r].outcome = "PipelineStatus"
        /\ runs[r].exit = ExitFailure
        /\ prev.valid


\* the step of upsertBranch a call belongs to; 0 for the two calls that
\* more than one step issues
StepOf(op) ==
    CASE op \in {"showCurrentUser", "Projects.show", "clone", "addConfig.email",
                 "addConfig.name"} -> 1
      [] op \in {"fetch.sync", "checkout.sync", "checkout.target"} -> 2
      [] op = "log" -> 3
      [] op = "reset" -> 4
      [] op \in {"listRemote", "submodule.init", "submodule.fetch",
                 "submodule.checkoutBranch", "submodule.checkout", "revparse"} -> 5
      [] op \in {"add", "commit"} -> 6
      [] op = "push" -> 7
      [] OTHER -> 0

\* step k of upsertBranch succeeded in run r
StepSucceeded(r, k) ==
    CASE k = 1 -> Succeeded(r, "addConfig.name")
      [] k = 2 -> Succeeded(r, "checkout.sync") \/ Succeeded(r, "checkout.target")
      [] k = 3 -> Succeeded(r, "log") /\ runs[r].outcome # "Drift"
      [] k = 4 -> Succeeded(r, "reset")
      [] k = 5 -> Succeeded(r, "revparse") /\ runs[r].outcome # "SHAMismatch"
      [] k = 6 -> Succeeded(r, "commit")

\* C24: step order. The calls of a sync-branch run appear in the order of the
\* steps clone, source-branch checkout, validation, hard reset, submodule
\* pin, commit, push; a call of a step is issued only when every earlier step
\* succeeded, so nothing follows the first failed step and the push follows
\* six successful steps.
C24_StepOrder ==
    \A r \in RunIds :
        IsSyncRun(r)
        => /\ \A i \in 1..Len(runs[r].ops), j \in 1..Len(runs[r].ops) :
                (i < j /\ StepOf(runs[r].ops[i].op) # 0 /\ StepOf(runs[r].ops[j].op) # 0)
                => StepOf(runs[r].ops[i].op) <= StepOf(runs[r].ops[j].op)
           /\ \A i \in 1..Len(runs[r].ops) :
                \A k \in 1..(StepOf(runs[r].ops[i].op) - 1) : StepSucceeded(r, k)

\* a run pushed, and another run stopped at the hard reset
C24_Witness ==
    \E ra \in RunIds, rb \in RunIds :
        /\ IsSyncRun(ra) /\ Succeeded(ra, "push")
        /\ IsSyncRun(rb) /\ runs[rb].outcome = "ResetFailed"


\* C25: source-branch preparation. A run that holds the sync branch as the
\* fallback made it, branched off the target's ref, found no sync branch on
\* the remote (no other process acts between the steps of a run here, so the
\* remote is as the checkout found it until the run pushes); and the step
\* failed only with both the own ref and the fallback failing.
C25_FallbackOnlyWithoutRef ==
    \A r \in RunIds :
        IsSyncRun(r)
        => /\ (runs[r].pc \in {"validate", "reset", "pin", "commit", "push"}
               /\ Succeeded(r, "checkout.target"))
              => ~sync.exists
           /\ runs[r].outcome \in {"FetchTarget", "CheckoutTarget"}
              => ~Succeeded(r, "checkout.sync")


\* the calls of syncBranch on merge requests
MRCallNames == {"MergeRequests.all", "MergeRequests.create", "MergeRequests.edit"}

\* C26: merge-request calls follow the push. Every listing, create or edit
\* call of a sync-branch run comes after the successful push of that run in
\* its operation log; a run without a successful push issued none.
C26_MRCallsAfterPush ==
    \A r \in RunIds :
        IsSyncRun(r)
        => \A j \in 1..Len(runs[r].ops) :
              runs[r].ops[j].op \in MRCallNames
              => \E i \in 1..(j - 1) :
                    runs[r].ops[i].op = "push" /\ runs[r].ops[i].ok

\* one run created the merge request after its push, the other failed at the
\* push and ended without a merge-request call
C26_Witness ==
    \E ra \in RunIds, rb \in RunIds :
        /\ IsSyncRun(ra) /\ Succeeded(ra, "MergeRequests.create")
        /\ IsSyncRun(rb) /\ runs[rb].outcome = "PushFailed"
        /\ \A j \in 1..Len(runs[rb].ops) : runs[rb].ops[j].op \notin MRCallNames


\* C27: the two implementations agree. On every commit log the provenance
\* checks of lib/temp-dir.ts and of lib/upsert-branch.ts give the same
\* verdict.
C27_SameVerdict ==
    (call.tempDir # NoVerdict /\ call.upsertBranch # NoVerdict)
    => call.tempDir = call.upsertBranch


\* the calls of mergeMr
MergeMrCallNames == {"MergeRequests.all", "MergeRequests.allDiffs", "MergeRequests.merge"}

\* C28: merge-mr touches the merge request only. A merge-mr run has no
\* workspace and issues GitLab API calls only; it issues at most one merge
\* call, as its last call, after a listing with exactly one merge request
\* without conflicts and a diff check that found the expected SHA; a run
\* that ended before the merge call changed nothing.
C28_MergeOnlyMerges ==
    \A r \in RunIds :
        IsMergeRun(r)
        => /\ runs[r].path = NoPath
           /\ \A i \in 1..Len(runs[r].ops) : runs[r].ops[i].op \in MergeMrCallNames
           /\ \A i \in 1..(Len(runs[r].ops) - 1) :
                  runs[r].ops[i].op # "MergeRequests.merge"
           /\ (runs[r].pc = "mmerge" \/ Issued(r, "MergeRequests.merge"))
              => /\ Len(runs[r].listing) = 1
                 /\ ~runs[r].listing[1].has_conflicts
                 /\ Succeeded(r, "MergeRequests.allDiffs")
           /\ runs[r].pc = "mmerge" => PointerChangedTo(runs[r].sha)
           /\ ~Succeeded(r, "MergeRequests.merge") => ~runs[r].changed

\* a run merged the merge request
C28_Witness ==
    \E r \in RunIds :
        /\ IsMergeRun(r)
        /\ Succeeded(r, "MergeRequests.merge")
        /\ runs[r].changed
        /\ runs[r].result.state = "merged"


\* the texts that read "true" in some mix of cases, and "1"
TrueTexts ==
    {<<"1">>} \cup {<<a, "r", "u", "e">> : a \in {"t", "T"}}

\* C29: the boolean flag. The merge-when-pipeline-succeeds option of the merge
\* call is true exactly when the environment value is set and reads "true" in
\* any case or "1", with nothing around it.
C29_FlagFromEnvVar ==
    call.built
    => (call.mergeWhenPipelineSucceeds
        <=> (call.value.set /\ call.value.text \in TrueTexts))

\* the option built from "True" is true
C29_Witness ==
    /\ call.built
    /\ call.value.text = <<"T", "r", "u", "e">>
    /\ call.mergeWhenPipelineSucceeds


\* the configured values that parse as a URL whose normalized text ends in a
\* digit
LinkableUrls == {"https://github.com/o/r/pull/7"}

\* C30: merge-request text. The title is chore(<submodule>): update submodule
\* to '<branch>'; the description names the branch as a markdown link to the
\* configured URL when that URL parses and its normalized text ends in a
\* digit, and as code text for every other value, set or unset; a text is
\* derived for every value.
C30_MRText ==
    call.title # NoText
    => /\ call.title = "chore(" \o call.name \o "): update submodule to '"
                       \o call.branch \o "'"
       /\ call.description =
             "This MR updates the <bt>" \o call.name
             \o "<bt> submodule to the SHA commit <bt>" \o call.sha \o "<bt> on the "
             \o (IF call.env \in LinkableUrls
                 THEN "[<bt>" \o call.branch \o "<bt>](" \o call.env \o ")"
                 ELSE "<bt>" \o call.branch \o "<bt>")
             \o " branch."

\* a value that ends in a digit and loses it when normalized gave code text
C30_Witness ==
    /\ call.title # NoText
    /\ call.env = "https://github.com:443"
    /\ call.description =
          "This MR updates the <bt>" \o call.name
          \o "<bt> submodule to the SHA commit <bt>" \o call.sha \o "<bt> on the <bt>"
          \o call.branch \o "<bt> branch."

\* C31: frame of upsertBranch on the remote. A run pushes at most once, to
\* the ref named "<submodule>/<externalBranch>" and no other, and the
\* target branch's remote tip is what it was before the run, for every
\* combination of the three names.
C31_TargetUntouched ==
    /\ Len(call.pushed) <= 1
    /\ \A i \in 1..Len(call.pushed) :
         call.pushed[i] = createMRSourceBranchName(call.name, call.branch)
    /\ call.refs[call.targetBranch] = call.refs0[call.targetBranch]

\* run r takes its push step and the push succeeds
PushStep(r) == runs'[r].ops = runs[r].ops \o <<Op("push", TRUE)>>

\* C32: a commit of somebody without the salt that is on the remote sync
\* branch is never overwritten: whenever a run's force-push succeeds, the
\* remote sync branch held no commit without the salt at that moment.
C32_ForeignCommitKept ==
    [][\A r \in RunIds : PushStep(r) => ~RangeHasUnsaltedCommit]_vars

\* run r takes its merge step and the host merges the merge request
MergeStep(r) ==
    /\ runs[r].pc = "mmerge"
    /\ runs'[r].result.state = "merged"

\* C33: the merge is guarded against a moving head. When a merge-mr run gets
\* its merge request merged, the head that is merged is the head the listing
\* returned, it is the head whose diffs the run checked, and its diffs hold
\* the expected SHA, whatever a sync-branch run pushed in between.
C33_MergedHeadWasChecked ==
    [][\A r \in RunIds :
         MergeStep(r)
         => /\ HeadSHA(sync) = runs[r].listing[1].sha
            /\ runs[r].checked
            /\ isMRContainsSubmoduleSHA(MRDiffs(sync), runs[r].sha)]_vars

\* a merge-mr run got its merge request merged after the sync-branch run
\* had pushed: the source branch is gone with the merge and was not pushed
\* again
C33_Witness ==
    /\ runs["r1"].result.state = "merged"
    /\ runs["r1"].checked
    /\ Succeeded("r2", "push")
    /\ ~sync.exists

\* C34: two sync-branch runs for one (source, target) pair whose steps
\* interleave leave at most one merge request open for the pair, and they do
\* not both issue a create call.
C34_OneCreate ==
    /\ Cardinality(OpenForPair(mrs)) <= 1
    /\ \A ra \in RunIds, rb \in RunIds :
         (/\ ra # rb
          /\ IsSyncRun(ra)
          /\ IsSyncRun(rb)
          /\ Issued(ra, "MergeRequests.create"))
         => ~Issued(rb, "MergeRequests.create")

\* C35: after a successful sync-branch run the description sent with the
\* create or edit call names the SHA the run pinned in the sync commit, with
\* the SHA given as an argument and with the SHA left out and resolved from
\* the external branch's remote head.
C35_DescriptionNamesPinnedSHA ==
    \A r \in RunIds :
        (IsSyncRun(r) /\ RunSucceeded(r))
        => LastCall(runs[r]).description =
              createGitlabMergeRequestInfo(runs[r].subHead, ExternalBranch,
                                           SubmoduleName, runs[r].prUrl).description

\* C36: with no SHA given, the list-remote lookup that resolves the desired
\* SHA is issued only after the submodule was initialized: a successful
\* submodule init precedes it in the run's calls.
C36_LookupAfterInit ==
    \A r \in RunIds :
        \A i \in 1..Len(runs[r].ops) :
            runs[r].ops[i].op = "listRemote"
            => \E j \in 1..(i - 1) : runs[r].ops[j] = Op("submodule.init", TRUE)

\* C37: the sync branch name is injective over whole identities. Two calls
\* that gave the same name were made with the same submodule name and the
\* same external branch, also when a name or a branch holds a "/".
C37_NameInjective ==
    (call.sync # NoName /\ call.other # NoName /\ call.sync = call.other)
    => (call.name = call.name2 /\ call.branch = call.branch2)

\* C38: when the TempDir constructor fails on a directory that is not empty,
\* the step leaves the directory and its contents as they were and changes
\* nothing on the remote, the run has issued no call on the remote
\* repository or the REST interface, and it takes no step afterwards.
C38_FailedConstructorTouchesNothing ==
    [][\A r \in RunIds :
         /\ (runs[r].pc = "tempdir" /\ runs'[r].outcome = "TempDirNotEmpty")
            => /\ fs' = fs
               /\ UNCHANGED <<target, sync, mrs>>
               /\ runs'[r].ops = <<>>
               /\ runs'[r].pc = "done"
         /\ runs[r].outcome = "TempDirNotEmpty" => runs'[r] = runs[r]]_vars

\* a run's constructor failed on the directory that holds the clone of the
\* other run, and the clone is still there
C38_Witness ==
    \E r \in RunIds :
        /\ runs[r].outcome = "TempDirNotEmpty"
        /\ runs[r].ops = <<>>
        /\ fs[runs[r].path] \in RunIds \ {r}

\* the positions of a run in the order the handlers go through them
PcOrder ==
    <<"idle", "tempdir", "clone", "checkout", "validate", "reset", "pin", "commit",
      "push", "list", "upsert", "mlist", "mdiffs", "mmerge", "done">>

PcRank(pc) == CHOOSE i \in 1..Len(PcOrder) : PcOrder[i] = pc

\* a call of run r that failed is the last call of the run, or it is the
\* fetch or checkout of the own ref and is not issued again
NoRetry(r) ==
    \A i \in 1..Len(runs[r].ops) :
        ~runs[r].ops[i].ok
        => /\ \A j \in (i + 1)..Len(runs[r].ops) : runs[r].ops[j].op # runs[r].ops[i].op
           /\ i < Len(runs[r].ops) => runs[r].ops[i].op \in {"fetch.sync", "checkout.sync"}

\* C39: termination. A run that has started ends, in success or failure;
\* every step moves it forward in the order of the handlers; a sync-branch
\* run issues at most one push and at most one create or edit call, a
\* merge-mr run at most one merge call; a failed call is not issued again,
\* and the own-ref fetch or checkout that failed is followed by the
\* target-branch fallback once.
C39_RunsTerminate ==
    /\ \A r \in SeqRunIds : (runs[r].pc # "idle") ~> (runs[r].pc = "done")
    /\ [][\A r \in RunIds :
            runs'[r] # runs[r] => PcRank(runs'[r].pc) > PcRank(runs[r].pc)]_vars
    /\ [](\A r \in RunIds :
            /\ Cardinality(MrCalls(r, "push")) <= 1
            /\ Cardinality(MrCalls(r, "MergeRequests.create")
                           \cup MrCalls(r, "MergeRequests.edit")) <= 1
            /\ Cardinality(MrCalls(r, "MergeRequests.merge")) <= 1
            /\ Cardinality(MrCalls(r, "checkout.target")) <= 1
            /\ NoRetry(r))

\* a sync-branch run whose own-ref fetch failed went through the fallback,
\* pushed once, made its one create call and ended
C39_Witness ==
    \E r \in RunIds :
        /\ IsSyncRun(r)
        /\ RunSucceeded(r)
        /\ runs[r].ops[6] = Op("fetch.sync", FALSE)
        /\ Succeeded(r, "checkout.target")
        /\ Cardinality(MrCalls(r, "push")) = 1
        /\ Cardinality(MrCalls(r, "MergeRequests.create")) = 1

====
